---- MODULE Spec2Model ----
(***************************************************************************)
(* Diary store of the youth-wellness server: the HTTP handlers of          *)
(* DiaryController, the operations of DiaryService and DiaryModel, and the *)
(* detached analyses started by analyzeEntryAsync, over the two Firestore  *)
(* collections diaryEntries and diaryInsights.                             *)
(*                                                                         *)
(* Every await on a Firestore or provider call is a point where other      *)
(* requests and analyses interleave; the code between two awaits is one    *)
(* step.  A continuation that only dispatches a detached analysis and      *)
(* sends the response is taken in the step of the write it follows: it     *)
(* reads and writes no store state.  The three provider calls of           *)
(* analyzeEntryAsync (analyzeSentiment, analyzeEntities, analyzeDiaryEntry)*)
(* touch no store state either and are one step.                           *)
(***************************************************************************)
EXTENDS Bags, FiniteSets, Integers, Sequences, TLC

(***************************************************************************)
(* Bounds of the model.                                                    *)
(***************************************************************************)
MaxEntries == 2
MaxTasks == 2
MaxSlots == 2
MaxBatchTasks == 10

(***************************************************************************)
(* Program constants.                                                      *)
(***************************************************************************)
MaxContentLength == 10000
DefaultBatchLimit == 5

Users == {"u1", "u2"}
EntryIds == 1..MaxEntries
Slots == 1..MaxSlots
\* The entries of the fixture of the batch operation.
Fixture == 1..DefaultBatchLimit

(***************************************************************************)
(* Strings.  A string is the sequence of its runs [ch, n] (n >= 1 copies   *)
(* of the character ch, neighbouring runs of different characters), so     *)
(* that a content of 10,001 characters is one run.                         *)
(***************************************************************************)
Run(ch, n) == [ch |-> ch, n |-> n]

RECURSIVE StrLen(_)
StrLen(s) == IF s = <<>> THEN 0 ELSE Head(s).n + StrLen(Tail(s))

IsWhiteSpace(ch) == ch \in {" ", "\t", "\n"}

RECURSIVE TrimStart(_)
TrimStart(s) ==
  IF s # <<>> /\ IsWhiteSpace(Head(s).ch) THEN TrimStart(Tail(s)) ELSE s

RECURSIVE TrimEnd(_)
TrimEnd(s) ==
  IF s # <<>> /\ IsWhiteSpace(s[Len(s)].ch)
  THEN TrimEnd(SubSeq(s, 1, Len(s) - 1))
  ELSE s

Trim(s) == TrimEnd(TrimStart(s))

\* JavaScript truthiness of a value that is a string: the empty string is falsy.
Truthy(s) == StrLen(s) > 0

EmptyText == <<>>
BlankText == <<Run(" ", 3)>>
TextA == <<Run("a", 3)>>
TextB == <<Run("b", 2), Run(" ", 1), Run("b", 4)>>
LimitText == <<Run("a", MaxContentLength)>>
LongText == <<Run("a", MaxContentLength + 1)>>

(***************************************************************************)
(* Request bodies: a body is a record of the fields the client sent; a     *)
(* field that was not sent is not in its domain (undefined in the code).   *)
(***************************************************************************)
NoBody == [x \in {} |-> 0]
HasField(body, f) == f \in DOMAIN body
\* `!content` of a destructured body field
Falsy(body, f) == ~HasField(body, f) \/ ~Truthy(body[f])

CreateBodies ==
  { [content |-> TextA], [content |-> LimitText], [content |-> LongText],
    [content |-> BlankText], [content |-> EmptyText], [mood |-> "calm"] }
UpdateBodies == { [content |-> TextB], [content |-> TextA], [mood |-> "calm"] }
BatchBodies == { NoBody, [limit |-> 1] }

(***************************************************************************)
(* Error messages: the sequence of the segments that the nested            *)
(* `throw new Error(`prefix: ${error.message}`)` join with ": ".           *)
(***************************************************************************)
Wrap(prefix, message) == <<prefix>> \o message

SegmentIncludes(segment, needle) ==
  \/ segment = "Entry not found" /\ needle = "not found"
  \/ segment = "Unauthorized access" /\ needle = "Unauthorized"

Includes(message, needle) ==
  \E i \in 1..Len(message) : SegmentIncludes(message[i], needle)

VARIABLES entries, insights, tasks, reqs, nextEntryId, nextInsightId, env, call,
          files, chats, procs, millis

vars == <<entries, insights, tasks, reqs, nextEntryId, nextInsightId, env, call,
          files, chats, procs, millis>>

\* The state of the speech and chat services: the files of the directories
\* uploads and outputs (name to content), the Firestore collection chats
\* with its message subcollections, the handlers of the speech and chat
\* endpoints in flight, and the clock read by Date.now().
Services == <<files, chats, procs, millis>>

MaxProcs == 2
Procs == 1..MaxProcs
NoFiles == <<>>
NoChats == [docs |-> <<>>, messages |-> <<>>]
NoProc == [pc |-> "idle"]

InitServices ==
  /\ files = NoFiles
  /\ chats = NoChats
  /\ procs = [p \in Procs |-> NoProc]
  /\ millis = 0

(***************************************************************************)
(* State.                                                                  *)
(*   entries      the diaryEntries collection: document id -> document     *)
(*   insights     the diaryInsights collection: document id -> document    *)
(*   tasks        the analyzeEntryAsync calls, in flight or finished (the  *)
(*                finished ones are the lines of the console log)          *)
(*   reqs         the HTTP requests: per connection, the handler's         *)
(*                position and, once answered, the response                *)
(*   nextEntryId, nextInsightId   the ids addDoc has not handed out yet     *)
(*   env          process.env: the settings the middleware reads           *)
(*   call         the last call of a synchronous helper: its name, its     *)
(*                argument and what it returned                            *)
(***************************************************************************)
InFlightPcs == {"providers", "addDoc", "updateDoc"}

Task(entryId, content, pc, waiter) ==
  [entryId |-> entryId, content |-> content, pc |-> pc, waiter |-> waiter]

InFlight(bag) == {t \in BagToSet(bag) : t.pc \in InFlightPcs}

One(t) == SetToBag({t})

Idle == [pc |-> "idle"]

Request(kind, caller, id, body, pc) ==
  [pc |-> pc, kind |-> kind, caller |-> caller, id |-> id, body |-> body,
   status |-> 0, message |-> <<>>, snap |-> {}, count |-> 0]

\* A success response; of the request the connection keeps who asked for
\* which entry.
Respond(req, status) ==
  [req EXCEPT !.pc = "done", !.status = status, !.body = NoBody, !.snap = {}]

\* An error response, with the message of the error.
Fail(req, status, message) ==
  [req EXCEPT !.pc = "done", !.status = status, !.message = message, !.snap = {}]

\* A connection that can take the next request: the lowest one without a
\* request being handled.
Unused(s) == reqs[s].pc \in {"idle", "done"}
Free(s) == Unused(s) /\ \A r \in Slots : r < s => ~Unused(r)
Running(s) == ~Unused(s)

\* No request is being handled and no analysis is in flight.
Quiet == (\A s \in Slots : Unused(s)) /\ InFlight(tasks) = {}

InsightsOf(entryId) == {i \in DOMAIN insights : insights[i].entryId = entryId}

(***************************************************************************)
(* DiaryModel: the reads.                                                  *)
(***************************************************************************)
Ok(value) == [ok |-> TRUE, value |-> value, message |-> <<>>]
Err(message) == [ok |-> FALSE, value |-> 0, message |-> message]

\* The ownership test before the existence test: entry is undefined for a
\* missing document and entry.userId raises a TypeError.
GetEntryByIdOwnerFirst(entryId, userId) ==
  IF entryId \notin DOMAIN entries
  THEN Err(<<"Failed to get diary entry",
             "Cannot read properties of undefined (reading 'userId')">>)
  ELSE IF entries[entryId].userId # userId
  THEN Err(<<"Failed to get diary entry", "Unauthorized access">>)
  ELSE Ok(entries[entryId])

GetEntryById(entryId, userId) ==
  IF entryId \notin DOMAIN entries
  THEN Err(<<"Failed to get diary entry", "Entry not found">>)
  ELSE IF entries[entryId].userId # userId
  THEN Err(<<"Failed to get diary entry", "Unauthorized access">>)
  ELSE Ok(entries[entryId])

\* The query as it was meant: the first `limit` unprocessed documents in
\* document-id order.
GetUnprocessedEntriesUnshadowed(limit) ==
  LET unprocessed == {e \in DOMAIN entries : ~entries[e].processed}
  IN Ok({e \in unprocessed :
           Cardinality({f \in unprocessed : f < e}) < limit})

\* The parameter `limit` shadows the imported query constraint limit():
\* limit(limit) calls a number, a TypeError, caught and rethrown.
GetUnprocessedEntries(limit) ==
  Err(<<"Failed to get unprocessed entries", "limit is not a function">>)

(***************************************************************************)
(* DiaryController: the status of a failed get, update or delete.          *)
(***************************************************************************)
ErrorStatus(message) ==
  IF Includes(message, "not found") THEN 404
  ELSE IF Includes(message, "Unauthorized") THEN 403
  ELSE 500

\* Every controller's catch of createEntry and processPendingAnalysis.
InternalError(message) == 500

(***************************************************************************)
(* Documents.                                                              *)
(***************************************************************************)
NoDocs == [x \in {} |-> 0]

Without(docs, ids) == [x \in DOMAIN docs \ ids |-> docs[x]]

NewEntry(userId, entryData) ==
  [userId |-> userId,
   content |-> entryData.content,
   processed |-> FALSE]

\* updateDoc that leaves the processing flag as it was.
UpdatedKeepingFlag(entry, updateData) ==
  [entry EXCEPT
     !.content = IF HasField(updateData, "content") THEN updateData.content ELSE @]

\* updates = {...updateData, updatedAt, processed: false}
Updated(entry, updateData) ==
  [entry EXCEPT
     !.content = IF HasField(updateData, "content") THEN updateData.content ELSE @,
     !.processed = FALSE]

NewInsight(entryId) == [entryId |-> entryId]

\* A deleteEntry that commits an empty batch.
CommitNothing(rows, snap) == rows

\* batch.delete of every row of the snapshot, then batch.commit
CommitDeletes(rows, snap) == Without(rows, snap)

(***************************************************************************)
(* DiaryService.createEntry: validation.                                   *)
(***************************************************************************)
ValidateEntry(entryData) ==
  IF Falsy(entryData, "content") \/ StrLen(Trim(entryData.content)) = 0
  THEN Err(<<"Failed to create diary entry", "Entry content is required">>)
  ELSE IF StrLen(entryData.content) > MaxContentLength
  THEN Err(<<"Failed to create diary entry",
             "Entry content is too long (max 10,000 characters)">>)
  ELSE Ok(entryData)

\* DiaryController.createEntry up to the first await.
CreateEntryStart(req) ==
  IF Falsy(req.body, "content")
  THEN Fail(req, 400, <<"Content is required">>)
  ELSE LET v == ValidateEntry(req.body)
       IN IF v.ok THEN req ELSE Fail(req, InternalError(v.message), v.message)

\* DiaryController.updateEntry: the fields deleted from the body.
Sanitized(body) ==
  [f \in DOMAIN body \ {"userId", "createdAt", "processed"} |-> body[f]]

\* The prefixes DiaryModel and DiaryService put before a failure of theirs.
Wrapped(kind, message) ==
  CASE kind = "get" -> Wrap("Failed to get diary entry", message)
    [] kind = "update" ->
         Wrap("Failed to update diary entry",
              Wrap("Failed to update diary entry", message))
    [] kind = "delete" ->
         Wrap("Failed to delete diary entry",
              Wrap("Failed to delete diary entry", message))

(***************************************************************************)
(* Detached analyses.                                                      *)
(***************************************************************************)
Detached(bag) == {t \in BagToSet(bag) : t.waiter = 0}

RECURSIVE CopiesOf(_, _)
CopiesOf(bag, ts) ==
  IF ts = {} THEN 0
  ELSE LET t == CHOOSE x \in ts : TRUE
       IN CopiesIn(t, bag) + CopiesOf(bag, ts \ {t})

\* The analyses create and update have dispatched or are about to.
Dispatching ==
  CopiesOf(tasks, Detached(tasks))
  + Cardinality({s \in Slots : Running(s) /\ reqs[s].kind \in {"create", "update"}})

\* The analyses the batch calls have started.
Awaited == CopiesOf(tasks, BagToSet(tasks) \ Detached(tasks))

\* The response of create and update held back until the analysis is over.
AwaitAnalysis(req, status) == [req EXCEPT !.pc = "awaitAnalysis"]

\* `this.analyzeEntryAsync(...)` without await, then the response
Answer(req, status) == Respond(req, status)

\* storeInsights with its two writes in the other order.
AfterStepMarkFirst(pc) ==
  CASE pc = "providers" -> "updateDoc"
    [] pc = "updateDoc" -> "addDoc"
    [] pc = "addDoc" -> "ok"

\* The order of the awaits of analyzeEntryAsync and storeInsights.
AfterStep(pc) ==
  CASE pc = "providers" -> "addDoc"
    [] pc = "addDoc" -> "updateDoc"
    [] pc = "updateDoc" -> "ok"

\* Promise.all of a batch call settles with the last of its analyses.
Settled(rs, bag) ==
  [s \in Slots |->
     IF rs[s].pc = "awaitAll" /\ ~\E t \in InFlight(bag) : t.waiter = s
     THEN Respond(rs[s], 200)
     ELSE rs[s]]

Moved(t, pc) ==
  (tasks (-) One(t))
  (+) One(IF pc \in InFlightPcs THEN [t EXCEPT !.pc = pc]
          ELSE [t EXCEPT !.pc = pc, !.waiter = 0])

Advance(t, pc) ==
  /\ tasks' = Moved(t, pc)
  /\ reqs' = Settled(reqs, Moved(t, pc))

(***************************************************************************)
(* Initial states.                                                         *)
(***************************************************************************)
\* process.env of a deployment: authentication is not skipped.
Production == [NODE_ENV |-> "production", SKIP_AUTH |-> "false"]

NoCall == [fn |-> "none"]

Init ==
  /\ entries = NoDocs
  /\ insights = NoDocs
  /\ tasks = EmptyBag
  /\ reqs = [s \in Slots |-> Idle]
  /\ nextEntryId = 1
  /\ nextInsightId = 1
  /\ env = Production
  /\ call = NoCall
  /\ InitServices

(***************************************************************************)
(* POST /api/diary/entries                                                 *)
(***************************************************************************)
ReceiveCreate(s, u, body) ==
  /\ Free(s)
  /\ nextEntryId + Cardinality({r \in Slots : reqs[r].pc = "createDoc"}) <= MaxEntries
  /\ Dispatching < MaxTasks
  /\ reqs' = [reqs EXCEPT ![s] =
                CreateEntryStart(Request("create", u, 0, body, "createDoc"))]
  /\ UNCHANGED <<entries, insights, tasks, nextEntryId, nextInsightId, env, call, Services>>

\* addDoc of DiaryModel.createEntry, then the dispatch of the analysis and
\* the 201 response.
CreateWrite(s) ==
  /\ reqs[s].pc = "createDoc"
  /\ entries' = entries @@ (nextEntryId :> NewEntry(reqs[s].caller, reqs[s].body))
  /\ nextEntryId' = nextEntryId + 1
  /\ tasks' = tasks (+) One(Task(nextEntryId, reqs[s].body.content, "providers", 0))
  /\ reqs' = [reqs EXCEPT ![s] = Answer([@ EXCEPT !.id = nextEntryId], 201)]
  /\ UNCHANGED <<insights, nextInsightId, env, call, Services>>

(***************************************************************************)
(* GET, PUT and DELETE /api/diary/entries/:id                              *)
(***************************************************************************)
ReceiveGet(s, u, id) ==
  /\ Free(s)
  /\ reqs' = [reqs EXCEPT ![s] = Request("get", u, id, NoBody, "getDoc")]
  /\ UNCHANGED <<entries, insights, tasks, nextEntryId, nextInsightId, env, call, Services>>

ReceiveUpdate(s, u, id, body) ==
  /\ Free(s)
  /\ Dispatching < MaxTasks
  /\ reqs' = [reqs EXCEPT ![s] = Request("update", u, id, Sanitized(body), "getDoc")]
  /\ UNCHANGED <<entries, insights, tasks, nextEntryId, nextInsightId, env, call, Services>>

ReceiveDelete(s, u, id) ==
  /\ Free(s)
  /\ reqs' = [reqs EXCEPT ![s] = Request("delete", u, id, NoBody, "getDoc")]
  /\ UNCHANGED <<entries, insights, tasks, nextEntryId, nextInsightId, env, call, Services>>

\* deleteDoc before the ownership test: a refused delete removes the entry.
ReadEntryAfterDelete(s) ==
  /\ reqs[s].pc = "getDoc"
  /\ LET req == reqs[s]
         r == GetEntryById(req.id, req.caller)
         message == Wrapped(req.kind, r.message)
     IN /\ reqs' = [reqs EXCEPT ![s] =
                      IF ~r.ok THEN Fail(req, ErrorStatus(message), message)
                      ELSE [req EXCEPT !.pc =
                              CASE req.kind = "get" -> "getInsights"
                                [] req.kind = "update" -> "updateDoc"
                                [] req.kind = "delete" -> "deleteDoc"]]
        /\ entries' = IF ~r.ok /\ req.kind = "delete"
                      THEN Without(entries, {req.id}) ELSE entries
  /\ UNCHANGED <<insights, tasks, nextEntryId, nextInsightId, env, call, Services>>

\* getEntryById as the first await of getEntry, updateEntry and deleteEntry.
ReadEntry(s) ==
  /\ reqs[s].pc = "getDoc"
  /\ LET req == reqs[s]
         r == GetEntryById(req.id, req.caller)
         message == Wrapped(req.kind, r.message)
     IN reqs' = [reqs EXCEPT ![s] =
                   IF ~r.ok THEN Fail(req, ErrorStatus(message), message)
                   ELSE [req EXCEPT !.pc =
                           CASE req.kind = "get" -> "getInsights"
                             [] req.kind = "update" -> "updateDoc"
                             [] req.kind = "delete" -> "deleteDoc"]]
  /\ UNCHANGED <<entries, insights, tasks, nextEntryId, nextInsightId, env, call, Services>>

\* getEntryInsights of DiaryService.getEntry, then the 200 response.
ReadInsights(s) ==
  /\ reqs[s].pc = "getInsights"
  /\ reqs' = [reqs EXCEPT ![s] =
                Respond([@ EXCEPT !.count = Cardinality(InsightsOf(reqs[s].id))], 200)]
  /\ UNCHANGED <<entries, insights, tasks, nextEntryId, nextInsightId, env, call, Services>>

\* updateDoc of DiaryModel.updateEntry (it rejects when the document is
\* gone), then the dispatch of the analysis and the 200 response.
UpdateWrite(s) ==
  /\ reqs[s].pc = "updateDoc"
  /\ LET req == reqs[s]
         message == Wrapped("update", <<"No document to update">>)
     IN IF req.id \notin DOMAIN entries
        THEN /\ reqs' = [reqs EXCEPT ![s] = Fail(req, ErrorStatus(message), message)]
             /\ UNCHANGED <<entries, tasks>>
        ELSE /\ entries' = [entries EXCEPT ![req.id] = Updated(@, req.body)]
             /\ tasks' = IF ~Falsy(req.body, "content")
                         THEN tasks (+) One(Task(req.id, req.body.content, "providers", 0))
                         ELSE tasks
             /\ reqs' = [reqs EXCEPT ![s] =
                           IF ~Falsy(req.body, "content")
                           THEN Answer(req, 200) ELSE Respond(req, 200)]
  /\ UNCHANGED <<insights, nextEntryId, nextInsightId, env, call, Services>>

\* deleteDoc of DiaryModel.deleteEntry.
DeleteDoc(s) ==
  /\ reqs[s].pc = "deleteDoc"
  /\ entries' = Without(entries, {reqs[s].id})
  /\ reqs' = [reqs EXCEPT ![s].pc = "queryInsights"]
  /\ UNCHANGED <<insights, tasks, nextEntryId, nextInsightId, env, call, Services>>

\* getDocs of DiaryModel.deleteEntryInsights.
DeleteQuery(s) ==
  /\ reqs[s].pc = "queryInsights"
  /\ reqs' = [reqs EXCEPT ![s].pc = "commit", ![s].snap = InsightsOf(reqs[s].id)]
  /\ UNCHANGED <<entries, insights, tasks, nextEntryId, nextInsightId, env, call, Services>>

\* batch.commit of DiaryModel.deleteEntryInsights, then the 200 response.
DeleteCommit(s) ==
  /\ reqs[s].pc = "commit"
  /\ insights' = CommitDeletes(insights, reqs[s].snap)
  /\ reqs' = [reqs EXCEPT ![s] = Respond(@, 200)]
  /\ UNCHANGED <<entries, tasks, nextEntryId, nextInsightId, env, call, Services>>

\* getDocs or batch.commit of deleteEntryInsights rejects.
DeleteInsightsFail(s) ==
  /\ reqs[s].pc \in {"queryInsights", "commit"}
  /\ LET message == Wrapped("delete", <<"Failed to delete insights", "unavailable">>)
     IN reqs' = [reqs EXCEPT ![s] =
                   Fail(@, ErrorStatus(message), message)]
  /\ UNCHANGED <<entries, insights, tasks, nextEntryId, nextInsightId, env, call, Services>>

(***************************************************************************)
(* POST /api/diary/process-pending                                         *)
(***************************************************************************)
ProcessPending(s, u, body) ==
  /\ Free(s)
  /\ LET limit == IF HasField(body, "limit") THEN body.limit ELSE DefaultBatchLimit
         req == Request("batch", u, 0, body, "awaitAll")
         r == GetUnprocessedEntries(limit)
         message == Wrap("Failed to process pending analysis", r.message)
     IN IF ~r.ok
        THEN /\ reqs' = [reqs EXCEPT ![s] = Fail(req, InternalError(message), message)]
             /\ UNCHANGED tasks
        ELSE /\ Awaited + Cardinality(r.value) <= MaxBatchTasks
             /\ tasks' = tasks (+) SetToBag({Task(e, entries[e].content, "providers", s) :
                                              e \in r.value})
             /\ reqs' = Settled([reqs EXCEPT ![s] =
                                   [req EXCEPT !.count = Cardinality(r.value)]],
                                tasks')
  /\ UNCHANGED <<entries, insights, nextEntryId, nextInsightId, env, call, Services>>

(***************************************************************************)
(* analyzeEntryAsync                                                       *)
(***************************************************************************)
\* The three provider calls return.
AnalyzeProviders(t) ==
  /\ t \in BagToSet(tasks) /\ t.pc = "providers"
  /\ Advance(t, AfterStep(t.pc))
  /\ UNCHANGED <<entries, insights, nextEntryId, nextInsightId, env, call, Services>>

\* addDoc of DiaryModel.storeInsights.
StoreInsightsAdd(t) ==
  /\ t \in BagToSet(tasks) /\ t.pc = "addDoc"
  /\ insights' = insights @@ (nextInsightId :> NewInsight(t.entryId))
  /\ nextInsightId' = nextInsightId + 1
  /\ Advance(t, AfterStep(t.pc))
  /\ UNCHANGED <<entries, nextEntryId, env, call, Services>>

\* updateDoc of DiaryModel.storeInsights: it rejects when the entry is gone.
StoreInsightsMark(t) ==
  /\ t \in BagToSet(tasks) /\ t.pc = "updateDoc"
  /\ IF t.entryId \in DOMAIN entries
     THEN /\ entries' = [entries EXCEPT ![t.entryId].processed = TRUE]
          /\ Advance(t, AfterStep(t.pc))
     ELSE /\ Advance(t, "failed")
          /\ UNCHANGED entries
  /\ UNCHANGED <<insights, nextEntryId, nextInsightId, env, call, Services>>

\* A provider call or a store call of the analysis rejects: the catch of
\* analyzeEntryAsync logs it.
AnalysisFails(t) ==
  /\ t \in BagToSet(tasks) /\ t.pc \in InFlightPcs
  /\ Advance(t, "failed")
  /\ UNCHANGED <<entries, insights, nextEntryId, nextInsightId, env, call, Services>>

(***************************************************************************)
(* Specifications.                                                         *)
(***************************************************************************)
RequestStep ==
  \/ \E s \in Slots : CreateWrite(s)
  \/ \E s \in Slots : ReadEntry(s)
  \/ \E s \in Slots : ReadInsights(s)
  \/ \E s \in Slots : UpdateWrite(s)
  \/ \E s \in Slots : DeleteDoc(s)
  \/ \E s \in Slots : DeleteQuery(s)
  \/ \E s \in Slots : DeleteCommit(s)
  \/ \E s \in Slots : DeleteInsightsFail(s)

\* A step of some analysis.
ProvidersReturn == \E t \in BagToSet(tasks) : AnalyzeProviders(t)
InsightStored == \E t \in BagToSet(tasks) : StoreInsightsAdd(t)
EntryMarked == \E t \in BagToSet(tasks) : StoreInsightsMark(t)
AnalysisRejected == \E t \in BagToSet(tasks) : AnalysisFails(t)

TaskStep == ProvidersReturn \/ InsightStored \/ EntryMarked \/ AnalysisRejected

\* The requests that interleave.
Receive ==
  \/ \E s \in Slots, u \in Users : ReceiveCreate(s, u, [content |-> TextA])
  \/ \E s \in Slots, u \in Users, id \in EntryIds : ReceiveGet(s, u, id)
  \/ \E s \in Slots, u \in Users, id \in EntryIds,
        body \in {[content |-> TextB], [mood |-> "calm"]} :
       ReceiveUpdate(s, u, id, body)
  \/ \E s \in Slots, u \in Users, id \in EntryIds : ReceiveDelete(s, u, id)
  \/ \E s \in Slots, u \in Users : ProcessPending(s, u, NoBody)

\* Requests and analyses interleave at every await.
Next == Receive \/ RequestStep \/ TaskStep

Spec == Init /\ [][Next]_vars

\* One request at a time, each with every body of the HTTP surface: a
\* request is received when no other request and no analysis is running.
ReceiveAlone ==
  \/ \E s \in Slots, u \in Users, body \in CreateBodies :
       Quiet /\ ReceiveCreate(s, u, body)
  \/ \E s \in Slots, u \in Users, id \in EntryIds : Quiet /\ ReceiveGet(s, u, id)
  \/ \E s \in Slots, u \in Users, id \in EntryIds, body \in UpdateBodies :
       Quiet /\ ReceiveUpdate(s, u, id, body)
  \/ \E s \in Slots, u \in Users, id \in EntryIds : Quiet /\ ReceiveDelete(s, u, id)
  \/ \E s \in Slots, u \in Users, body \in BatchBodies :
       Quiet /\ ProcessPending(s, u, body)

NextSeq == ReceiveAlone \/ RequestStep \/ TaskStep

SpecSeq == Init /\ [][NextSeq]_vars

\* The fixture of the batch operation: DefaultBatchLimit entries just
\* created, none analysed yet, the analysis that createEntry dispatched for
\* each still at its provider calls; then only batch calls arrive.
InitFixture ==
  /\ entries = [e \in Fixture |-> NewEntry("u1", [content |-> TextA])]
  /\ insights = NoDocs
  /\ tasks = SetToBag({Task(e, TextA, "providers", 0) : e \in Fixture})
  /\ reqs = [s \in Slots |-> Idle]
  /\ nextEntryId = DefaultBatchLimit + 1
  /\ nextInsightId = 1
  /\ env = Production
  /\ call = NoCall
  /\ InitServices

NextFixture ==
  \/ \E s \in Slots, u \in Users, body \in BatchBodies : ProcessPending(s, u, body)
  \/ TaskStep

SpecFixture == InitFixture /\ [][NextFixture]_vars

(***************************************************************************)
(* The claims.                                                             *)
(***************************************************************************)
Answered(s, kind) == reqs[s].pc = "done" /\ reqs[s].kind = kind

FinishedFor(e, pc) == {t \in BagToSet(tasks) : t.entryId = e /\ t.pc = pc}

(***************************************************************************)
(* C1: in every reachable state, under every interleaving of requests and  *)
(* analyses, an entry whose processed flag is true has at least one        *)
(* insight row with its entryId; and an analysis that is about to set the  *)
(* flag of an entry that still exists has its insight row stored.          *)
(***************************************************************************)
C1_ProcessedHasInsight ==
  /\ \A e \in DOMAIN entries : entries[e].processed => InsightsOf(e) # {}
  /\ \A t \in BagToSet(tasks) :
       t.pc = "updateDoc" /\ t.entryId \in DOMAIN entries => InsightsOf(t.entryId) # {}

\* A processed entry while a request on it and a second analysis of it run.
C1_Witness ==
  \E e \in DOMAIN entries :
    /\ entries[e].processed
    /\ \E s \in Slots : Running(s) /\ reqs[s].id = e
    /\ \E t \in InFlight(tasks) : t.entryId = e

(***************************************************************************)
(* C2: whenever no request and no analysis is running, no insight row      *)
(* references an entry that does not exist.                                *)
(***************************************************************************)
C2_NoOrphanedInsight ==
  Quiet => \A i \in DOMAIN insights : insights[i].entryId \in DOMAIN entries

(***************************************************************************)
(* C3: with one operation running at a time, once deleteEntry(id, owner)   *)
(* has answered 200, getEntryById(id, owner) fails with 'Entry not found'  *)
(* and getEntryInsights(id) has no rows.                                   *)
(***************************************************************************)
C3_DeletedIsGone ==
  \A s \in Slots :
    Answered(s, "delete") /\ reqs[s].status = 200 =>
      LET r == GetEntryById(reqs[s].id, reqs[s].caller)
      IN /\ ~r.ok
         /\ r.message[Len(r.message)] = "Entry not found"
         /\ InsightsOf(reqs[s].id) = {}

\* A delete has answered 200 for an entry whose analysis had succeeded.
C3_Witness ==
  \E s \in Slots :
    /\ Answered(s, "delete") /\ reqs[s].status = 200
    /\ FinishedFor(reqs[s].id, "ok") # {}

(***************************************************************************)
(* C4: the step in which an update with a content field is written leaves  *)
(* the entry with processed = false, whatever the flag was before.         *)
(***************************************************************************)
C4_UpdateResetsProcessed ==
  [][\A s \in Slots :
       /\ reqs[s].pc = "updateDoc"
       /\ HasField(reqs[s].body, "content")
       /\ reqs'[s].pc = "done" /\ reqs'[s].status = 200
       => ~entries'[reqs[s].id].processed]_vars

\* An update with content was written to an entry that an analysis had
\* marked processed before.
C4_Witness ==
  \E s \in Slots :
    /\ Answered(s, "update") /\ reqs[s].status = 200
    /\ reqs[s].id \in DOMAIN entries
    /\ ~entries[reqs[s].id].processed
    /\ entries[reqs[s].id].content = TextB
    /\ FinishedFor(reqs[s].id, "ok") # {}

(***************************************************************************)
(* C5: whenever no request and no analysis is running, an entry whose      *)
(* analysis of its current content failed, and for whose current content   *)
(* no analysis succeeded, has processed = false.                           *)
(***************************************************************************)
C5_FailedAnalysisLeavesUnprocessed ==
  Quiet =>
    \A e \in DOMAIN entries :
      /\ \E t \in FinishedFor(e, "failed") : t.content = entries[e].content
      /\ ~\E t \in FinishedFor(e, "ok") : t.content = entries[e].content
      => ~entries[e].processed

(***************************************************************************)
(* C6: the step of createEntry or updateEntry that dispatches an analysis  *)
(* delivers the response (201, 200) with the analysis still at its first   *)
(* await, and no later step of an analysis, successful or failing at a     *)
(* provider or at the store, changes any response.                         *)
(***************************************************************************)
C6_AnalysisIsDetached ==
  [][/\ \A s \in Slots :
          BagCardinality(tasks') > BagCardinality(tasks) /\ reqs'[s] # reqs[s]
          => reqs'[s].pc = "done" /\ reqs'[s].status \in {200, 201}
     /\ (BagCardinality(tasks') = BagCardinality(tasks) /\ tasks' # tasks)
          => reqs' = reqs]_vars

\* A create has been answered 201 and the analysis of its entry is in flight.
C6_Witness ==
  \E s \in Slots :
    /\ Answered(s, "create") /\ reqs[s].status = 201
    /\ \E t \in InFlight(tasks) : t.entryId = reqs[s].id /\ t.pc = "addDoc"

BatchLimit(body) == IF HasField(body, "limit") THEN body.limit ELSE DefaultBatchLimit

C8_BatchReturnsSubmitted ==
  \A s \in Slots :
    Answered(s, "batch") =>
      reqs[s].status = 200 /\ reqs[s].count <= BatchLimit(reqs[s].body)

(***************************************************************************)
(* C9: the step of get, update and delete that reads the entry answers 404 *)
(* when no entry has the id, whoever calls, 403 when the entry exists and  *)
(* belongs to another user, and lets the owner proceed; the owner's        *)
(* request that ends without an error is answered 200.                     *)
(***************************************************************************)
C9_NotFoundBeforeUnauthorized ==
  [][\A s \in Slots :
       /\ reqs[s].pc = "getDoc" /\ reqs'[s].pc # "getDoc" =>
            IF reqs[s].id \notin DOMAIN entries
            THEN reqs'[s].pc = "done" /\ reqs'[s].status = 404
            ELSE IF entries[reqs[s].id].userId # reqs[s].caller
            THEN reqs'[s].pc = "done" /\ reqs'[s].status = 403
            ELSE reqs'[s].pc # "done"
       /\ reqs[s].pc \in {"getInsights", "updateDoc", "commit"}
          /\ reqs'[s].pc = "done" /\ reqs'[s].message = <<>>
          => reqs'[s].status = 200]_vars

\* One user's delete was answered 403 and the other user's get 404.
C9_Witness ==
  /\ \E s \in Slots : Answered(s, "delete") /\ reqs[s].status = 403
  /\ \E s \in Slots : Answered(s, "get") /\ reqs[s].status = 404

(***************************************************************************)
(* C10: every answered create request has status 201 when its content is   *)
(* valid and 400 when it is missing, empty, only white space or longer     *)
(* than 10,000 characters; and a request answered with an error stored no  *)
(* entry and started no analysis.                                          *)
(***************************************************************************)
ValidContent(body) ==
  /\ HasField(body, "content")
  /\ \E i \in 1..Len(body.content) : ~IsWhiteSpace(body.content[i].ch)
  /\ StrLen(body.content) <= MaxContentLength

C10_CreateStatus ==
  \A s \in Slots :
    Answered(s, "create") =>
      \/ reqs[s].status = 201 /\ reqs[s].id \in 1..(nextEntryId - 1)
      \/ reqs[s].status = 400 /\ ~ValidContent(reqs[s].body) /\ reqs[s].id = 0

(***************************************************************************)
(* The routers of app.js and the authentication middleware.                *)
(*                                                                         *)
(* A route is the mount point of its router, the method and the path       *)
(* inside the router, the path as the sequence of its segments.            *)
(***************************************************************************)
Route(mount, method, path) == [mount |-> mount, method |-> method, path |-> path]

ChatRoutes ==
  { Route("/api/chat", "POST", <<"message">>),
    Route("/api/chat", "GET", <<"history", ":sessionId">>),
    Route("/api/chat", "GET", <<"sessions">>) }

ResourceRoutes ==
  { Route("/api/resources", "GET", <<>>), Route("/api/resources", "POST", <<>>) }

SttRoutes ==
  { Route("/api/stt", "POST", <<>>), Route("/api/stt", "POST", <<"stream">>),
    Route("/api/stt", "GET", <<"info">>), Route("/api/stt", "GET", <<"health">>) }

TtsRoutes ==
  { Route("/api/tts", "POST", <<>>), Route("/api/tts", "POST", <<"ssml">>),
    Route("/api/tts", "POST", <<"live">>),
    Route("/api/tts", "GET", <<"download", ":fileName">>),
    Route("/api/tts", "GET", <<"stream", ":fileName">>),
    Route("/api/tts", "GET", <<"voices">>), Route("/api/tts", "GET", <<"info">>),
    Route("/api/tts", "POST", <<"cleanup">>), Route("/api/tts", "GET", <<"health">>) }

DiaryRoutes ==
  { Route("/api/diary", "POST", <<"entries">>),
    Route("/api/diary", "GET", <<"entries">>),
    Route("/api/diary", "GET", <<"entries", ":id">>),
    Route("/api/diary", "PUT", <<"entries", ":id">>),
    Route("/api/diary", "DELETE", <<"entries", ":id">>),
    Route("/api/diary", "GET", <<"analytics">>),
    Route("/api/diary", "GET", <<"insights", ":id">>),
    Route("/api/diary", "GET", <<"emotional-insights">>),
    Route("/api/diary", "GET", <<"prompts">>),
    Route("/api/diary", "GET", <<"stats">>),
    Route("/api/diary", "GET", <<"search">>),
    Route("/api/diary", "POST", <<"process-pending">>) }

AppRoutes == { Route("", "GET", <<"health">>) }

Routes ==
  ChatRoutes \cup ResourceRoutes \cup SttRoutes \cup TtsRoutes \cup DiaryRoutes
  \cup AppRoutes

\* req.path.startsWith('/download/'): the first segment and one after it
PathStartsWith(path, segment) == Len(path) >= 2 /\ path[1] = segment

\* The Authorization header: absent, of another scheme, or `Bearer <token>`.
Credential(header, token) == [header |-> header, token |-> token]

Tokens == {"", "valid", "forged", "expired", "notYetValid"}

Credentials ==
  { Credential("none", ""), Credential("Basic", "valid") }
  \cup { Credential("Bearer", t) : t \in Tokens }

\* jwt.verify: the decoded payload, or the name of the error it throws.
JwtVerify(token) ==
  CASE token = "valid" -> "decoded"
    [] token = "forged" -> "JsonWebTokenError"
    [] token = "expired" -> "TokenExpiredError"
    [] token = "notYetValid" -> "NotBeforeError"

Environments ==
  [NODE_ENV : {"development", "production"}, SKIP_AUTH : {"true", "false"}]

\* authMiddleware: 0 for next(), or the status of the response it sends.
CheckBearer(cred) ==
  IF cred.header # "Bearer" THEN 401
  ELSE IF cred.token = "" THEN 401
  ELSE LET verified == JwtVerify(cred.token)
       IN CASE verified = "decoded" -> 0
            [] verified = "JsonWebTokenError" -> 401
            [] verified = "TokenExpiredError" -> 401
            [] OTHER -> 500

AuthMiddleware(environment, cred) ==
  IF environment.NODE_ENV = "development" \/ environment.SKIP_AUTH = "true"
  THEN 0
  ELSE CheckBearer(cred)

\* The middleware each router installs with router.use before its routes.
RouterUses(route) ==
  CASE route.mount = "/api/chat" -> "authMiddleware"
    [] route.mount = "/api/resources" -> "none"
    [] route.mount = "/api/stt" -> "authMiddleware"
    [] route.mount = "/api/tts" ->
         IF PathStartsWith(route.path, "download")
            \/ PathStartsWith(route.path, "stream")
         THEN "none" ELSE "authMiddleware"
    [] route.mount = "/api/diary" -> "authMiddleware"
    [] OTHER -> "none"

\* The middleware named in the route itself.
RouteUses(route) ==
  IF route.mount = "/api/tts" /\ route.path \in {<<"voices">>, <<"info">>, <<"cleanup">>}
  THEN "authMiddleware" ELSE "none"

Inbound(route, cred) ==
  [pc |-> "router", route |-> route, cred |-> cred, status |-> 0, reached |-> FALSE]

\* The outcome of one middleware for a request.
Through(req, uses, pc) ==
  LET status == AuthMiddleware(env, req.cred)
  IN IF uses = "authMiddleware" /\ status # 0
     THEN [req EXCEPT !.pc = "done", !.status = status]
     ELSE [req EXCEPT !.pc = pc]

InitAuth ==
  /\ entries = NoDocs
  /\ insights = NoDocs
  /\ tasks = EmptyBag
  /\ reqs = [s \in Slots |-> Idle]
  /\ nextEntryId = 1
  /\ nextInsightId = 1
  /\ env \in Environments
  /\ call = NoCall
  /\ InitServices

AuthReceive(s, route, cred) ==
  /\ Free(s)
  /\ \A r \in Slots : Unused(r)
  /\ reqs' = [reqs EXCEPT ![s] = Inbound(route, cred)]
  /\ UNCHANGED <<entries, insights, tasks, nextEntryId, nextInsightId, env, call, Services>>

\* router.use(...) of the router the request is mounted on.
RouterUse(s) ==
  /\ reqs[s].pc = "router"
  /\ reqs' = [reqs EXCEPT ![s] = Through(@, RouterUses(@.route), "route")]
  /\ UNCHANGED <<entries, insights, tasks, nextEntryId, nextInsightId, env, call, Services>>

\* The middleware of the matched route.
RouteUse(s) ==
  /\ reqs[s].pc = "route"
  /\ reqs' = [reqs EXCEPT ![s] = Through(@, RouteUses(@.route), "handler")]
  /\ UNCHANGED <<entries, insights, tasks, nextEntryId, nextInsightId, env, call, Services>>

\* The handler of the route runs and answers.
Handle(s) ==
  /\ reqs[s].pc = "handler"
  /\ reqs' = [reqs EXCEPT ![s] = [@ EXCEPT !.pc = "done", !.status = 200,
                                             !.reached = TRUE]]
  /\ UNCHANGED <<entries, insights, tasks, nextEntryId, nextInsightId, env, call, Services>>

NextAuth ==
  \/ \E s \in Slots, route \in Routes, cred \in Credentials : AuthReceive(s, route, cred)
  \/ \E s \in Slots : RouterUse(s)
  \/ \E s \in Slots : RouteUse(s)
  \/ \E s \in Slots : Handle(s)

SpecAuth == InitAuth /\ [][NextAuth]_vars

(***************************************************************************)
(* C11: every answered request to an endpoint under /api/chat, /api/diary, *)
(* /api/stt, /api/tts and /api/resources, other than TTS download and      *)
(* stream and the health checks, reached its handler only with a valid     *)
(* bearer token and was answered 401 without one; every answered request   *)
(* to a health check or to TTS download or stream reached its handler.     *)
(***************************************************************************)
OpenRoute(route) ==
  \/ route.path = <<"health">>
  \/ route.mount = "/api/tts" /\ PathStartsWith(route.path, "download")
  \/ route.mount = "/api/tts" /\ PathStartsWith(route.path, "stream")

ValidToken(cred) == cred.header = "Bearer" /\ cred.token = "valid"

C11_BearerTokenRequired ==
  \A s \in Slots :
    reqs[s].pc = "done" =>
      IF OpenRoute(reqs[s].route) THEN reqs[s].reached
      ELSE IF ValidToken(reqs[s].cred) THEN reqs[s].reached
      ELSE ~reqs[s].reached /\ reqs[s].status = 401

(***************************************************************************)
(* The fields of a diary entry.  The documents of diaryEntries with the    *)
(* fields the handlers write: userId, content, createdAt, updatedAt,       *)
(* processed, metadata, and whatever field an update body carries.  One    *)
(* request at a time, each handler in one step; instants are counted from  *)
(* the creation of the entry (createdAt is the ordinal of the create,      *)
(* updatedAt a later instant once the entry was updated).                  *)
(***************************************************************************)
MaxDocs == 1

\* content.split(' '): one piece more than there are space characters
RECURSIVE CountOf(_, _)
CountOf(s, ch) ==
  IF s = <<>> THEN 0
  ELSE (IF Head(s).ch = ch THEN Head(s).n ELSE 0) + CountOf(Tail(s), ch)

SplitLength(s) == CountOf(s, " ") + 1

Metadata(content) ==
  [wordCount |-> SplitLength(content), characterCount |-> StrLen(content)]

\* DiaryModel.createEntry: entry
EntryDoc(userId, entryData, now) ==
  [userId |-> userId,
   content |-> entryData.content,
   createdAt |-> now,
   updatedAt |-> now,
   processed |-> FALSE,
   metadata |-> Metadata(entryData.content)]

\* DiaryModel.updateEntry: updates
Updates(updateData, now) ==
  LET fields == DOMAIN updateData \cup {"updatedAt", "processed"}
                \cup (IF ~Falsy(updateData, "content") THEN {"metadata"} ELSE {})
  IN [f \in fields |->
        CASE f = "metadata" /\ ~Falsy(updateData, "content") -> Metadata(updateData.content)
          [] f = "updatedAt" -> now
          [] f = "processed" -> FALSE
          [] OTHER -> updateData[f]]

\* {...a, ...b}, and updateDoc(ref, b) on the document a
Spread(a, b) ==
  [f \in DOMAIN a \cup DOMAIN b |-> IF f \in DOMAIN b THEN b[f] ELSE a[f]]

\* { id: docSnap.id, ...docSnap.data() }
Read(docId, doc) == Spread([id |-> docId], doc)

ForgedMetadata == [wordCount |-> 0, characterCount |-> 0]

SpacedTexts ==
  { <<Run("a", 1), Run(" ", 2), Run("b", 1)>>,
    <<Run(" ", 1), Run("a", 2)>>,
    <<Run("a", 2), Run(" ", 1)>>,
    <<Run("a", 1), Run("\t", 1), Run("b", 1)>>,
    <<Run("a", 1), Run("\n", 1), Run("b", 1)>>,
    <<Run("a", 1), Run(" ", 1), Run("b", 1)>> }

FieldCreateBodies == CreateBodies \cup { [content |-> t] : t \in SpacedTexts }

FieldUpdateBodies ==
  { [content |-> TextB], [content |-> EmptyText], [content |-> BlankText],
    [content |-> LongText], [metadata |-> ForgedMetadata],
    [content |-> TextB, metadata |-> ForgedMetadata],
    [id |-> 99],
    [userId |-> "u2", createdAt |-> 0, processed |-> TRUE] }

\* res.status(status).json({success: true, data})
Reply(kind, caller, id, status, data) ==
  [pc |-> "done", kind |-> kind, caller |-> caller, id |-> id, status |-> status,
   data |-> data]

\* res.status(status).json({success: false, message})
Refusal(kind, caller, id, status) ==
  [pc |-> "done", kind |-> kind, caller |-> caller, id |-> id, status |-> status]

InitFields ==
  /\ entries = NoDocs
  /\ insights = NoDocs
  /\ tasks = EmptyBag
  /\ reqs = [s \in Slots |-> Idle]
  /\ nextEntryId = 1
  /\ nextInsightId = 1
  /\ env = Production
  /\ call = NoCall
  /\ InitServices

\* POST /api/diary/entries, from the request to the response.
FieldsCreate(s, u, body) ==
  /\ Free(s)
  /\ nextEntryId <= MaxDocs
  /\ LET start == CreateEntryStart(Request("create", u, 0, body, "createDoc"))
         doc == EntryDoc(u, body, nextEntryId)
     IN IF start.pc = "done"
        THEN /\ reqs' = [reqs EXCEPT ![s] = Refusal("create", u, 0, start.status)]
             /\ UNCHANGED <<entries, nextEntryId>>
        ELSE /\ entries' = entries @@ (nextEntryId :> doc)
             /\ nextEntryId' = nextEntryId + 1
             /\ reqs' = [reqs EXCEPT ![s] =
                           Reply("create", u, nextEntryId, 201, Read(nextEntryId, doc))]
  /\ UNCHANGED <<insights, tasks, nextInsightId, env, call, Services>>

\* GET /api/diary/entries/:id, from the request to the response.
FieldsGet(s, u, id) ==
  /\ Free(s)
  /\ LET r == GetEntryById(id, u)
         message == Wrapped("get", r.message)
     IN reqs' = [reqs EXCEPT ![s] =
                   IF r.ok THEN Reply("get", u, id, 200, Read(id, r.value))
                   ELSE Refusal("get", u, id, ErrorStatus(message))]
  /\ UNCHANGED <<entries, insights, tasks, nextEntryId, nextInsightId, env, call, Services>>

\* PUT /api/diary/entries/:id, from the request to the response.
FieldsUpdate(s, u, id, body) ==
  /\ Free(s)
  /\ LET r == GetEntryById(id, u)
         message == Wrapped("update", r.message)
         updates == Updates(Sanitized(body), r.value.createdAt + 1)
     IN IF r.ok
        THEN /\ entries' = [entries EXCEPT ![id] = Spread(@, updates)]
             /\ reqs' = [reqs EXCEPT ![s] =
                           Reply("update", u, id, 200,
                                 Spread(Read(id, r.value), updates))]
        ELSE /\ reqs' = [reqs EXCEPT ![s] =
                           Refusal("update", u, id, ErrorStatus(message))]
             /\ UNCHANGED entries
  /\ UNCHANGED <<insights, tasks, nextEntryId, nextInsightId, env, call, Services>>

\* The updateDoc of storeInsights, at the end of an analysis of the entry.
FieldsMark(id) ==
  /\ id \in DOMAIN entries
  /\ ~entries[id].processed
  /\ entries' = [entries EXCEPT ![id] = Spread(@, [processed |-> TRUE])]
  /\ UNCHANGED <<insights, tasks, reqs, nextEntryId, nextInsightId, env, call, Services>>

NextFields ==
  \/ \E s \in Slots, u \in Users, body \in FieldCreateBodies : FieldsCreate(s, u, body)
  \/ \E s \in Slots, u \in Users, id \in 1..MaxDocs : FieldsGet(s, u, id)
  \/ \E s \in Slots, u \in Users, id \in 1..MaxDocs, body \in FieldUpdateBodies :
       FieldsUpdate(s, u, id, body)
  \/ \E id \in 1..MaxDocs : FieldsMark(id)

SpecFields == InitFields /\ [][NextFields]_vars

(***************************************************************************)
(* C12: every stored diary entry has a content that is not empty, not only *)
(* white space, and at most 10,000 characters long.                        *)
(***************************************************************************)
C12_StoredContentValid ==
  \A e \in DOMAIN entries : ValidContent(entries[e])

(***************************************************************************)
(* C13: the metadata.characterCount of every stored diary entry is the     *)
(* length of its content.                                                  *)
(***************************************************************************)
C13_CharacterCountIsLength ==
  \A e \in DOMAIN entries :
    entries[e].metadata.characterCount = StrLen(entries[e].content)

(***************************************************************************)
(* C14: a get answered 200 for an entry that was created and never updated *)
(* returns a metadata.wordCount equal to the number of white-space         *)
(* delimited tokens of the content.                                        *)
(***************************************************************************)
RECURSIVE TokenCount(_)
TokenCount(s) ==
  IF s = <<>> THEN 0
  ELSE (IF ~IsWhiteSpace(s[Len(s)].ch)
           /\ (Len(s) = 1 \/ IsWhiteSpace(s[Len(s) - 1].ch))
        THEN 1 ELSE 0)
       + TokenCount(SubSeq(s, 1, Len(s) - 1))

C14_WordCountIsTokenCount ==
  \A s \in Slots :
    /\ Answered(s, "get") /\ reqs[s].status = 200
    /\ reqs[s].data.updatedAt = reqs[s].data.createdAt
    => reqs[s].data.metadata.wordCount = TokenCount(reqs[s].data.content)

(***************************************************************************)
(* C15: no step changes the userId or the createdAt of a stored entry, and *)
(* a read of an entry returns it under the id of its document.             *)
(***************************************************************************)
C15_IdentityIsImmutable ==
  [][\A e \in DOMAIN entries :
       e \in DOMAIN entries' =>
         /\ entries'[e].userId = entries[e].userId
         /\ entries'[e].createdAt = entries[e].createdAt
         /\ Read(e, entries'[e]).id = e]_vars

(***************************************************************************)
(* The helpers that compute statistics.  A call of a helper is one step    *)
(* that records the helper, its arguments and what it returned in `call`;   *)
(* a behaviour follows one call.                                           *)
(* An instant is a number of hours since the start of day 0 of MaxDays + 1 *)
(* calendar days, the last of which is today; the process runs in a time   *)
(* zone whose days all have DayLength hours.                               *)
(***************************************************************************)
MaxDays == 4
MaxStreakEntries == 3
DayLength == 24

Today == MaxDays
ClockHours == {0, 9, 23}
Instants == {d * DayLength + h : d \in 0..MaxDays, h \in ClockHours}
Clock == {Today * DayLength + h : h \in {9, 23}}

\* date.setHours(0, 0, 0, 0); date.getTime()
StartOfDay(t) == t - (t % DayLength)

RECURSIVE InsertDescending(_, _)
InsertDescending(x, s) ==
  IF s = <<>> THEN <<x>>
  ELSE IF x >= Head(s) THEN <<x>> \o s
  ELSE <<Head(s)>> \o InsertDescending(x, Tail(s))

\* .sort((a, b) => b - a)
RECURSIVE SortDescending(_)
SortDescending(s) ==
  IF s = <<>> THEN <<>>
  ELSE InsertDescending(Head(s), SortDescending(Tail(s)))

NotUnique(s) == s

\* [...new Set(s)]: the first occurrence of each value, in order.
RECURSIVE Unique(_)
Unique(s) ==
  IF s = <<>> THEN <<>>
  ELSE LET rest == Unique(SubSeq(s, 1, Len(s) - 1))
           last == s[Len(s)]
       IN IF \E i \in 1..(Len(s) - 1) : s[i] = last
          THEN rest ELSE Append(rest, last)

\* The for loop over uniqueDates, from the element `dates` starts with.
RECURSIVE StreakLoop(_, _, _)
StreakLoop(dates, streak, currentDate) ==
  IF dates = <<>> THEN streak
  ELSE IF Head(dates) = currentDate
  THEN StreakLoop(Tail(dates), streak + 1, currentDate - DayLength)
  ELSE IF Head(dates) = currentDate + DayLength
  THEN StreakLoop(Tail(dates), streak + 1, Head(dates) - DayLength)
  ELSE streak

CalculateWritingStreak(es, now) ==
  IF Len(es) = 0 THEN 0
  ELSE LET today == StartOfDay(now)
           entryDates ==
             SortDescending([i \in 1..Len(es) |-> StartOfDay(es[i].createdAt)])
           uniqueDates == Unique(entryDates)
       IN StreakLoop(uniqueDates, 0, today)

\* The entries a user can have at the instant now, newest or oldest first.
RECURSIVE SeqsUpTo(_, _)
SeqsUpTo(S, n) ==
  IF n = 0 THEN {<<>>}
  ELSE LET shorter == SeqsUpTo(S, n - 1)
       IN shorter \cup {Append(q, x) : q \in {r \in shorter : Len(r) = n - 1},
                                       x \in S}

Dated(t) == [createdAt |-> t]

EntriesBefore(now) ==
  SeqsUpTo({Dated(t) : t \in {i \in Instants : i <= now}}, MaxStreakEntries)

InitCalls ==
  /\ entries = NoDocs
  /\ insights = NoDocs
  /\ tasks = EmptyBag
  /\ reqs = [s \in Slots |-> Idle]
  /\ nextEntryId = 1
  /\ nextInsightId = 1
  /\ env = Production
  /\ call = NoCall
  /\ InitServices

Store == <<entries, insights, tasks, reqs, nextEntryId, nextInsightId, env, Services>>

CallCalculateWritingStreak(es, now) ==
  /\ call' = [fn |-> "calculateWritingStreak", arg |-> es, now |-> now,
              ret |-> CalculateWritingStreak(es, now)]
  /\ UNCHANGED Store

Called(fn) == call.fn = fn

\* The calendar days, counted from day 0, on which the entries were written.
DaysWritten(es) == {es[i].createdAt \div DayLength : i \in 1..Len(es)}

\* The length of the longest run of days ending on `day` that are all in days.
RunEnding(days, day) ==
  CHOOSE k \in 0..(MaxDays + 1) :
    /\ \A i \in 0..(k - 1) : day - i \in days
    /\ day - k \notin days

C17_StreakContinuesFromYesterday ==
  Called("calculateWritingStreak")
  /\ call.arg # <<>>
  /\ call.now \div DayLength \notin DaysWritten(call.arg)
  => call.ret = RunEnding(DaysWritten(call.arg), (call.now \div DayLength) - 1)

(***************************************************************************)
(* Numbers.  A JavaScript number is an IEEE 754 double: a sign and a       *)
(* natural m of Precision bits scaled by a power of two, m * 2^e (zero has *)
(* no bits).  A natural is the sequence of its limbs of LimbBits bits,     *)
(* lowest first, the highest not zero.  The operations round their exact   *)
(* result to the nearest double, ties to even; the magnitudes of sentiment *)
(* scores stay far from overflow and from the subnormal range.             *)
(***************************************************************************)
Precision == 53
LimbBits == 24
Base == 2 ^ LimbBits

NatOf(n) == IF n = 0 THEN <<>>
            ELSE IF n < Base THEN <<n>>
            ELSE <<n % Base, n \div Base>>

RECURSIVE NatNorm(_)
NatNorm(a) ==
  IF a # <<>> /\ a[Len(a)] = 0 THEN NatNorm(SubSeq(a, 1, Len(a) - 1)) ELSE a

Limb(a, i) == IF i \in 1..Len(a) THEN a[i] ELSE 0

RECURSIVE NatAdd(_, _, _)
NatAdd(a, b, carry) ==
  IF a = <<>> /\ b = <<>> THEN (IF carry = 1 THEN <<1>> ELSE <<>>)
  ELSE LET sum == Limb(a, 1) + Limb(b, 1) + carry
       IN <<sum % Base>> \o NatAdd(IF a = <<>> THEN a ELSE Tail(a),
                                   IF b = <<>> THEN b ELSE Tail(b),
                                   sum \div Base)

\* a - b - borrow for a >= b + borrow, with high zero limbs.
RECURSIVE NatSubLimbs(_, _, _)
NatSubLimbs(a, b, borrow) ==
  IF a = <<>> THEN <<>>
  ELSE LET diff == Head(a) - Limb(b, 1) - borrow
       IN <<(diff + Base) % Base>>
          \o NatSubLimbs(Tail(a), IF b = <<>> THEN b ELSE Tail(b),
                         IF diff < 0 THEN 1 ELSE 0)

NatSub(a, b) == NatNorm(NatSubLimbs(a, b, 0))

\* The sign of a - b, comparing the limbs from position i down.
RECURSIVE NatCmpFrom(_, _, _)
NatCmpFrom(a, b, i) ==
  IF i = 0 THEN 0
  ELSE IF a[i] > b[i] THEN 1
  ELSE IF a[i] < b[i] THEN -1
  ELSE NatCmpFrom(a, b, i - 1)

NatCmp(a, b) ==
  IF Len(a) > Len(b) THEN 1
  ELSE IF Len(a) < Len(b) THEN -1
  ELSE NatCmpFrom(a, b, Len(a))

\* a * 2^k and floor(a / 2^k).
NatShl(a, k) ==
  LET limbs == k \div LimbBits
      j == k % LimbBits
      high == 2 ^ (LimbBits - j)
  IN IF a = <<>> THEN a
     ELSE NatNorm([i \in 1..limbs |-> 0]
                  \o [i \in 1..(Len(a) + 1) |->
                        (Limb(a, i) % high) * (2 ^ j) + Limb(a, i - 1) \div high])

NatShr(a, k) ==
  LET limbs == k \div LimbBits
      j == k % LimbBits
      low == 2 ^ j
  IN NatNorm([i \in 1..(Len(a) - limbs) |->
                Limb(a, i + limbs) \div low
                + (Limb(a, i + limbs + 1) % low) * (2 ^ (LimbBits - j))])

\* Bit k of a, the lowest being bit 0, and the number of bits of a.
NatBit(a, k) == (Limb(a, k \div LimbBits + 1) \div 2 ^ (k % LimbBits)) % 2

NatBits(a) ==
  IF a = <<>> THEN 0
  ELSE LimbBits * (Len(a) - 1)
       + CHOOSE n \in 1..LimbBits : 2 ^ (n - 1) <= a[Len(a)] /\ a[Len(a)] < 2 ^ n

\* Long division of the limbs i.. of a by the small integer n.
RECURSIVE NatDivFrom(_, _, _)
NatDivFrom(a, n, i) ==
  IF i > Len(a) THEN [q |-> <<>>, r |-> 0]
  ELSE LET high == NatDivFrom(a, n, i + 1)
           cur == Base * high.r + a[i]
       IN [q |-> <<cur \div n>> \o high.q, r |-> cur % n]

NatDiv(a, n) ==
  LET d == NatDivFrom(a, n, 1) IN [q |-> NatNorm(d.q), r |-> d.r]

\* The value m * 2^e, negated when neg; a double has an m of Precision bits.
Dyadic(neg, m, e) == [neg |-> neg, m |-> m, e |-> e]
Zero == Dyadic(FALSE, <<>>, 0)

Negated(x) == IF x.m = <<>> THEN x ELSE Dyadic(~x.neg, x.m, x.e)

\* x + y without rounding.
ExactSum(x, y) ==
  LET e == IF x.e < y.e THEN x.e ELSE y.e
      a == NatShl(x.m, x.e - e)
      b == NatShl(y.m, y.e - e)
  IN IF x.neg = y.neg THEN Dyadic(x.neg, NatAdd(a, b, 0), e)
     ELSE IF NatCmp(a, b) >= 0 THEN Dyadic(x.neg, NatSub(a, b), e)
     ELSE Dyadic(y.neg, NatSub(b, a), e)

\* The double nearest to x, or to a value just above x when sticky = 1.
RoundToNearest(x, sticky) ==
  LET bits == NatBits(x.m)
      k == bits - Precision
      kept == NatShr(x.m, k)
      below == sticky = 1 \/ NatShl(NatShr(x.m, k - 1), k - 1) # x.m
      up == NatBit(x.m, k - 1) = 1 /\ (below \/ NatBit(kept, 0) = 1)
      rounded == IF up THEN NatAdd(kept, <<1>>, 0) ELSE kept
  IN IF bits = 0 THEN Zero
     ELSE IF k <= 0 THEN Dyadic(x.neg, NatShl(x.m, -k), x.e + k)
     ELSE IF NatBits(rounded) > Precision
     THEN Dyadic(x.neg, NatShr(rounded, 1), x.e + k + 1)
     ELSE Dyadic(x.neg, rounded, x.e + k)

\* a + b, a - b and a / n of the language, n a positive integer.
Plus(x, y) == RoundToNearest(ExactSum(x, y), 0)
Minus(x, y) == RoundToNearest(ExactSum(x, Negated(y)), 0)
Over(x, n) ==
  LET d == NatDiv(NatShl(x.m, LimbBits), n)
  IN RoundToNearest(Dyadic(x.neg, d.q, x.e - LimbBits),
                    IF d.r = 0 THEN 0 ELSE 1)

Positive(x) == x.m # <<>> /\ ~x.neg
GreaterThan(x, y) == Positive(ExactSum(x, Negated(y)))
LessThan(x, y) == GreaterThan(y, x)

Integer(n) ==
  RoundToNearest(Dyadic(n < 0, NatOf(IF n < 0 THEN -n ELSE n), 0), 0)
\* The number a decimal literal of h hundredths denotes: 0.1 is Hundredths(10).
Hundredths(h) == Over(Integer(h), 100)

Tenth == Hundredths(10)

(***************************************************************************)
(* DiaryService.calculateTrend.                                            *)
(***************************************************************************)
MaxScores == 4
ScoreHundredths == {-100, -60, -50, -40, 10, 50}
ScoreValues == {Hundredths(h) : h \in ScoreHundredths}

Floor(n, d) == n \div d

Slice(s, from, to) == SubSeq(s, from + 1, to)

\* s.reduce((a, b) => a + b, 0)
RECURSIVE Reduce(_)
Reduce(s) ==
  IF s = <<>> THEN Zero
  ELSE Plus(Reduce(SubSeq(s, 1, Len(s) - 1)), s[Len(s)])

CalculateTrend(scores) ==
  IF Len(scores) < 2 THEN "neutral"
  ELSE LET firstHalf == Slice(scores, 0, Floor(Len(scores), 2))
           secondHalf == Slice(scores, Floor(Len(scores), 2), Len(scores))
           firstAvg == Over(Reduce(firstHalf), Len(firstHalf))
           secondAvg == Over(Reduce(secondHalf), Len(secondHalf))
           difference == Minus(secondAvg, firstAvg)
       IN IF GreaterThan(difference, Tenth) THEN "improving"
          ELSE IF LessThan(difference, Negated(Tenth)) THEN "declining"
          ELSE "stable"

CallCalculateTrend(scores) ==
  /\ call' = [fn |-> "calculateTrend", arg |-> scores,
              ret |-> CalculateTrend(scores)]
  /\ UNCHANGED Store

\* The sum of the scores and k times x, without rounding.
RECURSIVE ExactTotal(_)
ExactTotal(s) ==
  IF s = <<>> THEN Zero ELSE ExactSum(Head(s), ExactTotal(Tail(s)))

RECURSIVE Times(_, _)
Times(k, x) == IF k = 0 THEN Zero ELSE ExactSum(x, Times(k - 1, x))

\* scale * |first| * |second| * (mean(second) - mean(first)) - |first| *
\* |second| * bound: it has the sign of the difference of the means less
\* bound / scale.
Excess(scores, scale, bound) ==
  LET half == Len(scores) \div 2
      first == ExactTotal(SubSeq(scores, 1, half))
      second == ExactTotal(SubSeq(scores, half + 1, Len(scores)))
      lenFirst == half
      lenSecond == Len(scores) - half
  IN ExactSum(ExactSum(Times(scale * lenFirst, second),
                       Negated(Times(scale * lenSecond, first))),
              Negated(Times(lenFirst * lenSecond, bound)))

\* The trend of the scores for the threshold bound / scale.
TrendOfMeans(scores, scale, bound) ==
  IF Len(scores) < 2 THEN "neutral"
  ELSE IF Positive(Excess(scores, scale, bound)) THEN "improving"
  ELSE IF Positive(Negated(Excess(scores, scale, Negated(bound))))
  THEN "declining"
  ELSE "stable"

\* The same for the decimal numbers the scores were written as.
RECURSIVE Total(_)
Total(s) == IF s = <<>> THEN 0 ELSE Head(s) + Total(Tail(s))

DecimalOf(x) == CHOOSE h \in ScoreHundredths : Hundredths(h) = x

TrendOfDecimalMeans(scores) ==
  LET decimals == [i \in 1..Len(scores) |-> DecimalOf(scores[i])]
      half == Len(scores) \div 2
      lenFirst == half
      lenSecond == Len(scores) - half
      excess == lenFirst * Total(SubSeq(decimals, half + 1, Len(scores)))
                - lenSecond * Total(SubSeq(decimals, 1, half))
  IN IF Len(scores) < 2 THEN "neutral"
     ELSE IF excess > 10 * lenFirst * lenSecond THEN "improving"
     ELSE IF excess < -10 * lenFirst * lenSecond THEN "declining"
     ELSE "stable"

(***************************************************************************)
(* C18: calculateTrend returns 'neutral' for fewer than two scores, and    *)
(* otherwise 'improving' when the mean of the second half of the scores    *)
(* less the mean of their first floor(n/2) is more than 0.1, 'declining'   *)
(* when it is less than -0.1, and 'stable' otherwise.  The means and their *)
(* difference are exact: those of the numbers passed, compared with one    *)
(* tenth or with the number the literal 0.1 denotes, or those of the       *)
(* decimal numbers the scores were written as.                             *)
(***************************************************************************)
C18_TrendComparesHalfMeans ==
  Called("calculateTrend") =>
    call.ret \in {TrendOfMeans(call.arg, 10, Integer(1)),
                  TrendOfMeans(call.arg, 1, Tenth),
                  TrendOfDecimalMeans(call.arg)}

(***************************************************************************)
(* The emotional insights of a user: entries are created, analyses store   *)
(* their insights, and getEmotionalInsights reads both collections.  An    *)
(* entry is created at the instant that is its number.                     *)
(***************************************************************************)
MaxInsightEntries == 3

InsightScores == {Hundredths(h) : h \in {-50, 10, 50}}
\* The sentiment of an analysis: with a score, or without one.
Sentiments == {[score |-> v] : v \in InsightScores} \cup {[label |-> "neutral"]}

InsightDoc(entryId, analysis, now) ==
  [entryId |-> entryId, sentiment |-> analysis.sentiment, createdAt |-> now]

\* orderBy('createdAt', 'desc') of the documents ids.
RECURSIVE OrderByCreatedAtDesc(_)
OrderByCreatedAtDesc(ids) ==
  IF ids = {} THEN <<>>
  ELSE LET newest == CHOOSE i \in ids :
                       \A j \in ids : entries[j].createdAt <= entries[i].createdAt
       IN <<newest>> \o OrderByCreatedAtDesc(ids \ {newest})

\* The query without where('userId', '==', userId).
GetEveryEntry(userId) ==
  LET ids == OrderByCreatedAtDesc(DOMAIN entries)
  IN [i \in 1..Len(ids) |-> Read(ids[i], entries[ids[i]])]

GetUserEntries(userId) ==
  LET ids == OrderByCreatedAtDesc({e \in DOMAIN entries :
                                     entries[e].userId = userId})
  IN [i \in 1..Len(ids) |-> Read(ids[i], entries[ids[i]])]

\* The rows of the entry, in the order of their ids.
RECURSIVE Rows(_)
Rows(ids) ==
  IF ids = {} THEN <<>>
  ELSE LET first == CHOOSE i \in ids : \A j \in ids : i <= j
       IN <<Read(first, insights[first])>> \o Rows(ids \ {first})

GetEntryInsights(entryId) == Rows(InsightsOf(entryId))

\* The rows of the entries of es, entry after entry.
RECURSIVE InsightsOfEntries(_)
InsightsOfEntries(es) ==
  IF es = <<>> THEN <<>>
  ELSE GetEntryInsights(Head(es).id) \o InsightsOfEntries(Tail(es))

RECURSIVE SentimentScores(_)
SentimentScores(rows) ==
  IF rows = <<>> THEN <<>>
  ELSE (IF "score" \in DOMAIN Head(rows).sentiment
        THEN <<Head(rows).sentiment.score>> ELSE <<>>)
       \o SentimentScores(Tail(rows))

\* The sentiment part of the result; the emotions, themes, triggers and
\* coping strategies of the rows are not part of the state.
ProcessEmotionalInsights(rows) ==
  LET sentimentScores == SentimentScores(rows)
  IN [averageSentiment |->
        IF Len(sentimentScores) > 0
        THEN Over(Reduce(sentimentScores), Len(sentimentScores)) ELSE Zero,
      sentimentTrend |-> CalculateTrend(sentimentScores)]

InitInsights == InitCalls

\* createEntry
InsightsCreate(u) ==
  /\ nextEntryId <= MaxInsightEntries
  /\ entries' = entries @@ (nextEntryId :> EntryDoc(u, [content |-> TextA], nextEntryId))
  /\ nextEntryId' = nextEntryId + 1
  /\ UNCHANGED <<insights, tasks, reqs, nextInsightId, env, call, Services>>

\* storeInsights, at the end of the analysis of an entry.
InsightsStore(e, sentiment) ==
  /\ e \in DOMAIN entries
  /\ ~entries[e].processed
  /\ insights' = insights @@
       (nextInsightId :> InsightDoc(e, [sentiment |-> sentiment], nextEntryId))
  /\ nextInsightId' = nextInsightId + 1
  /\ entries' = [entries EXCEPT ![e] = Spread(@, [processed |-> TRUE])]
  /\ UNCHANGED <<tasks, reqs, nextEntryId, env, call, Services>>

GetEmotionalInsights(userId) ==
  /\ call' = [fn |-> "getEmotionalInsights", arg |-> userId,
              ret |-> ProcessEmotionalInsights(
                        InsightsOfEntries(GetUserEntries(userId)))]
  /\ UNCHANGED Store

NextInsights ==
  \/ \E u \in Users : InsightsCreate(u)
  \/ \E e \in 1..MaxInsightEntries, sentiment \in Sentiments :
       InsightsStore(e, sentiment)
  \/ \E u \in Users : GetEmotionalInsights(u)

SpecInsights == InitInsights /\ [][NextInsights]_vars

\* The sentiment scores of the user's entries, the oldest entry first.
RECURSIVE Reverse(_)
Reverse(s) == IF s = <<>> THEN s ELSE Append(Reverse(Tail(s)), Head(s))

ChronologicalScores(userId) ==
  SentimentScores(InsightsOfEntries(Reverse(GetUserEntries(userId))))

(***************************************************************************)
(* C19: the sentimentTrend getEmotionalInsights reports is the trend of    *)
(* the sentiment scores taken oldest entry first: 'improving' when the     *)
(* mean of the older half is more than 0.1 below that of the newer half,   *)
(* 'declining' in the mirrored case.                                       *)
(***************************************************************************)
C19_TrendIsChronological ==
  Called("getEmotionalInsights") =>
    LET trend == TrendOfDecimalMeans(ChronologicalScores(call.arg))
    IN trend \in {"improving", "declining"} => call.ret.sentimentTrend = trend

(***************************************************************************)
(* VertexAIService.analyzeUserSentiment.  The text of a response is the    *)
(* sequence of its parts: prose without braces, a line break, a code fence *)
(* with or without the word json, prose in braces, a JSON object (whose    *)
(* fields are its members) and a JSON value that is no object.  A JSON     *)
(* value is its type and a name for what it holds.                         *)
(***************************************************************************)
MaxParts == 5

String(v) == [type |-> "string", v |-> v]
Number == [type |-> "number", v |-> "3"]
Array(v) == [type |-> "array", v |-> v]
Boolean(v) == [type |-> "boolean", v |-> v]

NoFields == [f \in {} |-> Number]
Part(t) == [t |-> t, fields |-> NoFields]
Object(fields) == [t |-> "object", fields |-> fields]

CompleteObject ==
  Object([sentiment |-> String("negative"), urgency |-> String("high"),
          emotions |-> Array("sad"), needsSupport |-> Boolean("true")])
SentimentOnlyObject == Object([sentiment |-> String("positive")])
MistypedObject ==
  Object([sentiment |-> String("sad"), urgency |-> Number,
          emotions |-> String("sad"), needsSupport |-> String("yes"),
          confidence |-> Number])

Parts ==
  {Part("prose"), Part("newline"), Part("fenceJson"), Part("fence"),
   Part("braced"), Part("array"), CompleteObject, SentimentOnlyObject,
   MistypedObject}

\* What generateContent resolves or rejects with.
Outcome(kind, text) == [kind |-> kind, text |-> text]
Outcomes ==
  {Outcome("rejected", <<>>), Outcome("noCandidates", <<>>)}
  \cup {Outcome("text", text) : text \in SeqsUpTo(Parts, MaxParts)}

Thrown == [thrown |-> TRUE, value |-> NoFields]
Returned(value) == [thrown |-> FALSE, value |-> value]

\* response.trim()
RECURSIVE TrimPartsStart(_)
TrimPartsStart(text) ==
  IF text # <<>> /\ Head(text).t = "newline" THEN TrimPartsStart(Tail(text))
  ELSE text

RECURSIVE TrimPartsEnd(_)
TrimPartsEnd(text) ==
  IF text # <<>> /\ text[Len(text)].t = "newline"
  THEN TrimPartsEnd(SubSeq(text, 1, Len(text) - 1))
  ELSE text

TrimParts(text) == TrimPartsEnd(TrimPartsStart(text))

\* text.replace(/<fence>\n?/g, '')
RECURSIVE RemoveFences(_, _)
RemoveFences(text, fence) ==
  IF text = <<>> THEN text
  ELSE IF Head(text).t = fence
  THEN RemoveFences(IF Len(text) > 1 /\ text[2].t = "newline"
                    THEN Tail(Tail(text)) ELSE Tail(text), fence)
  ELSE <<Head(text)>> \o RemoveFences(Tail(text), fence)

\* text.match(/\{[\s\S]*\}/): from the first { to the last } of the text.
HasBraces(part) == part.t \in {"object", "braced"}

JsonMatch(text) ==
  LET braces == {i \in 1..Len(text) : HasBraces(text[i])}
      first == CHOOSE i \in braces : \A j \in braces : i <= j
      last == CHOOSE i \in braces : \A j \in braces : j <= i
  IN IF braces = {} THEN text ELSE SubSeq(text, first, last)

\* JSON.parse: one JSON value between white space.
JsonParse(text) ==
  LET value == TrimParts(text)
  IN IF Len(value) = 1 /\ value[1].t \in {"object", "array"}
     THEN Returned(value[1])
     ELSE Thrown

ValidSentiments == {"positive", "neutral", "negative"}
ValidUrgency == {"low", "medium", "high"}

Fallback ==
  [sentiment |-> String("neutral"), urgency |-> String("low"),
   emotions |-> Array("unknown"), needsSupport |-> Boolean("false")]

\* validValues.includes(parsed[f])
IncludesField(validValues, parsed, f) ==
  /\ f \in DOMAIN parsed
  /\ parsed[f].type = "string"
  /\ parsed[f].v \in validValues

HasType(parsed, f, type) == f \in DOMAIN parsed /\ parsed[f].type = type

\* The four assignments to the parsed value; an array takes them as well.
Validated(parsed) ==
  LET fields == DOMAIN parsed \cup DOMAIN Fallback
  IN [f \in fields |->
        CASE f = "sentiment" /\ ~IncludesField(ValidSentiments, parsed, f) ->
               Fallback[f]
          [] f = "urgency" /\ ~IncludesField(ValidUrgency, parsed, f) ->
               Fallback[f]
          [] f = "emotions" /\ ~HasType(parsed, f, "array") -> Fallback[f]
          [] f = "needsSupport" /\ ~HasType(parsed, f, "boolean") ->
               Fallback[f]
          [] OTHER -> parsed[f]]

AnalyzeUserSentiment(outcome) ==
  IF outcome.kind # "text" THEN Fallback
  ELSE LET response == outcome.text
           cleanedResponse ==
             JsonMatch(RemoveFences(RemoveFences(TrimParts(response),
                                                 "fenceJson"), "fence"))
           parsed == JsonParse(cleanedResponse)
       IN IF parsed.thrown THEN Fallback ELSE Validated(parsed.value.fields)

CallAnalyzeUserSentiment(outcome) ==
  /\ call' = [fn |-> "analyzeUserSentiment", arg |-> outcome,
              ret |-> AnalyzeUserSentiment(outcome)]
  /\ UNCHANGED Store

\* VertexAIService.analyzeDiaryEntry: the fallback, and the call.
DiaryFallback ==
  [themes |-> Array("personal_reflection"), triggers |-> Array(""),
   copingStrategies |-> Array(""), emotionalState |-> String("mixed"),
   stressLevel |-> String("medium"), supportNeeded |-> String("general"),
   positiveAspects |-> Array("self_awareness"), concernAreas |-> Array(""),
   culturalContext |-> String("general")]

AnalyzeDiaryEntry(outcome) ==
  IF outcome.kind # "text" THEN Thrown
  ELSE LET text == outcome.text
           jsonMatch == JsonMatch(text)
           parsed == JsonParse(jsonMatch)
       IN IF \E i \in 1..Len(text) : HasBraces(text[i])
          THEN (IF parsed.thrown THEN Returned(DiaryFallback)
                ELSE Returned(parsed.value.fields))
          ELSE Returned(DiaryFallback)

CallAnalyzeDiaryEntry(outcome) ==
  /\ call' = [fn |-> "analyzeDiaryEntry", arg |-> outcome,
              ret |-> AnalyzeDiaryEntry(outcome)]
  /\ UNCHANGED Store

\* A behaviour follows one call.
NextSentiment ==
  \/ /\ call = NoCall
     /\ \E outcome \in Outcomes : CallAnalyzeUserSentiment(outcome)
  \/ /\ call = NoCall
     /\ \E outcome \in Outcomes : CallAnalyzeDiaryEntry(outcome)

SpecSentiment == InitCalls /\ [][NextSentiment]_vars

\* The value has the shape of an analysis.
Analysis(value) ==
  /\ DOMAIN Fallback \subseteq DOMAIN value
  /\ value.sentiment \in {String(v) : v \in ValidSentiments}
  /\ value.urgency \in {String(v) : v \in ValidUrgency}
  /\ value.emotions.type = "array"
  /\ value.needsSupport.type = "boolean"

\* The places of the JSON objects of the response.
ObjectsOf(outcome) ==
  {i \in 1..Len(outcome.text) : outcome.text[i].t = "object"}

\* The analysis an object stands for: its valid fields, the others defaulted.
Coerced(object) ==
  [f \in DOMAIN Fallback |->
     IF f \in DOMAIN object /\ Analysis([Fallback EXCEPT ![f] = object[f]])
     THEN object[f] ELSE Fallback[f]]

(***************************************************************************)
(* C20: for every outcome of the provider analyzeUserSentiment returns an  *)
(* analysis (a sentiment, an urgency, an array of emotions and a boolean   *)
(* needsSupport); when the response holds one JSON object, in prose or in  *)
(* code fences, the four fields are the valid ones of that object and the  *)
(* defaults for the others, and when it holds none they are the defaults.  *)
(***************************************************************************)
C20_SentimentCoercesResponse ==
  Called("analyzeUserSentiment") =>
    /\ Analysis(call.ret)
    /\ ObjectsOf(call.arg) = {} =>
         \A f \in DOMAIN Fallback : call.ret[f] = Fallback[f]
    /\ \A i \in ObjectsOf(call.arg) :
         ObjectsOf(call.arg) = {i} =>
           \A f \in DOMAIN Fallback :
             call.ret[f] = Coerced(call.arg.text[i].fields)[f]

\* The places of the parts of the text that hold a brace.
BracesOf(text) == {i \in 1..Len(text) : HasBraces(text[i])}

\* The first part with a brace is a JSON object and a later part has one too.
ObjectThenBrace(text) ==
  \E i \in BracesOf(text) :
    /\ \A j \in BracesOf(text) : i <= j
    /\ text[i].t = "object"
    /\ BracesOf(text) # {i}

FirstObject(text) ==
  text[CHOOSE i \in BracesOf(text) : \A j \in BracesOf(text) : i <= j].fields

(***************************************************************************)
(* C21: when the text of the provider holds a JSON object followed by more *)
(* text with a brace, analyzeUserSentiment and analyzeDiaryEntry decode    *)
(* that first object; when the text holds no object they return their      *)
(* fallback value and raise nothing.                                       *)
(***************************************************************************)
C21_FirstBalancedObject ==
  /\ Called("analyzeUserSentiment") /\ call.arg.kind = "text" =>
       /\ ObjectThenBrace(call.arg.text) =>
            \A f \in DOMAIN Fallback :
              call.ret[f] = Coerced(FirstObject(call.arg.text))[f]
       /\ ObjectsOf(call.arg) = {} => call.ret = Fallback
  /\ Called("analyzeDiaryEntry") /\ call.arg.kind = "text" =>
       /\ ObjectThenBrace(call.arg.text) =>
            call.ret = Returned(FirstObject(call.arg.text))
       /\ ObjectsOf(call.arg) = {} => call.ret = Returned(DiaryFallback)

(***************************************************************************)
(* The specification of the helpers: one call of one of them.              *)
(***************************************************************************)
NextCalls ==
  \/ /\ call = NoCall
     /\ \E now \in Clock : \E es \in EntriesBefore(now) :
          CallCalculateWritingStreak(es, now)
  \/ /\ call = NoCall
     /\ \E scores \in SeqsUpTo(ScoreValues, MaxScores) :
          CallCalculateTrend(scores)

SpecCalls == InitCalls /\ [][NextCalls]_vars

(***************************************************************************)
(* Speech-to-text: POST /api/stt and POST /api/stt/stream.  multer stores  *)
(* the upload in the directory uploads and the controller runs in the tick *)
(* in which the upload finished; the code up to the await of the provider  *)
(* call is one step, the continuation after it the next, and the           *)
(* continuation after the await of fs.unlink the last.  fs.unlink of a     *)
(* file that exists removes it.  A slot serves one request.                *)
(***************************************************************************)
MaxMillis == 2
Suffixes == {0, 1}
SttEndpoints == {"/api/stt", "/api/stt/stream"}
Recognitions == {"transcript", "empty", "failure"}
NoFile == [dir |-> "none"]
Diary == <<entries, insights, tasks, reqs, nextEntryId, nextInsightId, env, call>>

\* storage.filename: stt-<Date.now()>-<random>.
UploadName(stamp, suffix) == [dir |-> "uploads", stamp |-> stamp, suffix |-> suffix]

ExistsSync(fs, path) == path \in DOMAIN fs

WriteFile(fs, path, content) ==
  [n \in DOMAIN fs \cup {path} |-> IF n = path THEN content ELSE fs[n]]

NoUnlink(fs, path) == fs
Unlink(fs, path) == [n \in DOMAIN fs \ {path} |-> fs[n]]

Sent(proc, status) == [proc EXCEPT !.pc = "done", !.status = status]

\* The date passes.
Tick ==
  /\ millis < MaxMillis
  /\ millis' = millis + 1
  /\ UNCHANGED <<Diary, files, chats, procs>>

\* upload.single('audio') and the controller up to the provider call.
SttReceive(p, endpoint, upload) ==
  /\ procs[p] = NoProc
  /\ IF upload = NoFile
     THEN /\ procs' = [procs EXCEPT ![p] = [pc |-> "done", endpoint |-> endpoint,
                                            file |-> NoFile, status |-> 400]]
          /\ UNCHANGED files
     ELSE /\ files' = WriteFile(files, upload, p)
          /\ procs' = [procs EXCEPT ![p] = [pc |-> "recognize", endpoint |-> endpoint,
                                            file |-> upload, status |-> 0]]
  /\ UNCHANGED <<Diary, chats, millis>>

\* sttService.transcribeAudio throws on a provider failure and on an empty
\* result; sttService.transcribeAudioStream rejects on a provider failure
\* and resolves with '' on an empty result.
Transcribed(endpoint, recognition) ==
  \/ recognition = "transcript"
  \/ endpoint = "/api/stt/stream" /\ recognition = "empty"

\* The continuation after the provider call: the clean-up of the try block,
\* or the one of the catch block.
SttRecognized(p, recognition) ==
  /\ procs[p].pc = "recognize"
  /\ LET status == IF Transcribed(procs[p].endpoint, recognition) THEN 200 ELSE 500
     IN procs' = [procs EXCEPT ![p] =
                    IF ExistsSync(files, @.file)
                    THEN [@ EXCEPT !.pc = "unlink", !.status = status]
                    ELSE Sent(@, status)]
  /\ UNCHANGED <<Diary, files, chats, millis>>

\* fs.unlink and the continuation after it: the response.  The unlink of a
\* file that is gone rejects: in the try block the catch block answers, in
\* the catch block the error is logged.
SttUnlinked(p) ==
  /\ procs[p].pc = "unlink"
  /\ files' = Unlink(files, procs[p].file)
  /\ procs' = [procs EXCEPT ![p] =
                 Sent(@, IF ExistsSync(files, @.file) THEN @.status ELSE 500)]
  /\ UNCHANGED <<Diary, chats, millis>>

NextStt ==
  \/ Tick
  \/ \E p \in Procs, endpoint \in SttEndpoints,
        upload \in {NoFile} \cup {UploadName(millis, x) : x \in Suffixes} :
       SttReceive(p, endpoint, upload)
  \/ \E p \in Procs, recognition \in Recognitions : SttRecognized(p, recognition)
  \/ \E p \in Procs : SttUnlinked(p)

SpecStt == Init /\ [][NextStt]_vars

MaxTextLength == 5000
TtsEndpoints == {"/api/tts", "/api/tts/ssml"}
Encodings == {"MP3", "WAV"}
Syntheses == {"audio", "noAudio", "failure"}
TtsContents ==
  { EmptyText, BlankText, TextA, <<Run("a", MaxTextLength)>>,
    <<Run("a", MaxTextLength + 1)>> }
\* The bodies: text or ssml, and the audioEncoding among the voice options.
TtsBodies ==
  {[text |-> c, audioEncoding |-> e] : c \in TtsContents, e \in Encodings}
    \cup {[ssml |-> c, audioEncoding |-> e] : c \in TtsContents, e \in Encodings}
    \cup {[audioEncoding |-> "MP3"]}

\* validateTextInput: the status it answers, 0 when it calls next().
ValidateTextInput(body) ==
  LET content == IF ~Falsy(body, "text") THEN body.text
                 ELSE IF HasField(body, "ssml") THEN body.ssml ELSE EmptyText
  IN IF ~Truthy(content) \/ StrLen(Trim(content)) = 0 THEN 400
     ELSE IF StrLen(content) > MaxTextLength THEN 400
     ELSE 0

\* The validation of TtsController.synthesizeText and of synthesizeSSML.
ValidateSynthesis(endpoint, body) ==
  IF endpoint = "/api/tts"
  THEN IF Falsy(body, "text") \/ StrLen(Trim(body.text)) = 0 THEN 400
       ELSE IF StrLen(body.text) > MaxTextLength THEN 400
       ELSE 0
  ELSE IF Falsy(body, "ssml") \/ StrLen(Trim(body.ssml)) = 0 THEN 400
       ELSE 0

\* The layers of the router that match a POST of a synthesis endpoint.
TtsLayers(endpoint) ==
  << "authMiddleware",
     IF endpoint = "/api/tts" THEN "synthesizeText" ELSE "synthesizeSSML",
     "validateTextInput" >>

\* The layers a request runs, and the status of the layer that answered
\* (0: the controller has started the synthesis).
RECURSIVE Dispatch(_, _, _, _)
Dispatch(layers, endpoint, body, ran) ==
  IF layers = <<>> THEN [ran |-> ran, status |-> 404]
  ELSE LET layer == Head(layers)
           status == CASE layer = "authMiddleware" -> 0
                       [] layer = "validateTextInput" -> ValidateTextInput(body)
                       [] OTHER -> ValidateSynthesis(endpoint, body)
       IN IF layer \in {"authMiddleware", "validateTextInput"} /\ status = 0
          THEN Dispatch(Tail(layers), endpoint, body, ran \cup {layer})
          ELSE [ran |-> ran \cup {layer}, status |-> status]

\* tts_<timestamp>.<ext> and tts_ssml_<timestamp>.<ext>.
OutputName(endpoint, stamp, encoding) ==
  [dir |-> "outputs", prefix |-> IF endpoint = "/api/tts" THEN "tts_" ELSE "tts_ssml_",
   stamp |-> stamp, ext |-> IF encoding = "WAV" THEN "wav" ELSE "mp3"]

\* The router and the controller up to the provider call.
TtsReceive(p, endpoint, body) ==
  /\ procs[p] = NoProc
  /\ LET d == Dispatch(TtsLayers(endpoint), endpoint, body, {})
     IN procs' = [procs EXCEPT ![p] =
                    [pc |-> IF d.status = 0 THEN "synthesize" ELSE "done",
                     endpoint |-> endpoint, body |-> body, ran |-> d.ran,
                     asked |-> d.status = 0, file |-> NoFile, status |-> d.status]]
  /\ UNCHANGED <<Diary, files, chats, millis>>

\* The continuation after ttsClient.synthesizeSpeech.
TtsSynthesized(p, synthesis) ==
  /\ procs[p].pc = "synthesize"
  /\ procs' = [procs EXCEPT ![p] =
                 IF synthesis = "audio"
                 THEN [@ EXCEPT !.pc = "write",
                                !.file = OutputName(procs[p].endpoint, millis,
                                                    procs[p].body.audioEncoding)]
                 ELSE Sent(@, 500)]
  /\ UNCHANGED <<Diary, files, chats, millis>>

\* fs.writeFile and the continuation after it: the response.
TtsWritten(p) ==
  /\ procs[p].pc = "write"
  /\ files' = WriteFile(files, procs[p].file, p)
  /\ procs' = [procs EXCEPT ![p] = Sent(@, 200)]
  /\ UNCHANGED <<Diary, chats, millis>>

NextTts ==
  \/ Tick
  \/ \E p \in Procs, endpoint \in TtsEndpoints, body \in TtsBodies :
       TtsReceive(p, endpoint, body)
  \/ \E p \in Procs, synthesis \in Syntheses : TtsSynthesized(p, synthesis)
  \/ \E p \in Procs : TtsWritten(p)

SpecTts == Init /\ [][NextTts]_vars

\* The text or the SSML of a synthesis request.
SynthesisContent(proc) ==
  LET f == IF proc.endpoint = "/api/tts" THEN "text" ELSE "ssml"
  IN IF HasField(proc.body, f) THEN proc.body[f] ELSE EmptyText

\* C23: a synthesis request (POST /api/tts, POST /api/tts/ssml) whose text
\* or SSML is empty or longer than 5000 characters is answered 400 before
\* the provider is called and before a file is written, and the middleware
\* validateTextInput runs for the request.
C23_InvalidSynthesisRefused ==
  \A p \in Procs :
    procs[p] # NoProc =>
      /\ "validateTextInput" \in procs[p].ran
      /\ StrLen(Trim(SynthesisContent(procs[p]))) = 0
           \/ StrLen(SynthesisContent(procs[p])) > MaxTextLength =>
           /\ ~procs[p].asked
           /\ procs[p].file = NoFile
           /\ procs[p].pc = "done" /\ procs[p].status = 400

\* C27: each synthesis writes to a file name of its own: two syntheses of
\* one endpoint, also in the same millisecond, have different file names,
\* and the file of an answered synthesis holds the audio of that synthesis.
C27_OutputNamesUnique ==
  /\ \A p, q \in Procs :
       p # q /\ procs[p] # NoProc /\ procs[q] # NoProc
         /\ procs[p].file # NoFile /\ procs[q].file # NoFile =>
         procs[p].file # procs[q].file
  /\ \A p \in Procs :
       procs[p].pc = "done" /\ procs[p].status = 200 =>
         ExistsSync(files, procs[p].file) /\ files[procs[p].file] = p

(***************************************************************************)
(* Chat: MCPService.processChatMessage and getChatSessions over the        *)
(* Firestore collection chats.  chats.docs maps a chat id to the fields of *)
(* its document, chats.messages is the messages of all chats in the order  *)
(* in which they were added, each with the call that added it.  The three  *)
(* reads before the first write (getUserContext, getChatHistory,           *)
(* analyzeUserSentiment) are one step, as are generateWellnessResponse and *)
(* enhanceWithResources; every write is a step of its own and can fail.    *)
(***************************************************************************)
NoSession == [kind |-> "null"]
ClientSessions == {[kind |-> "client", n |-> 1]}
Messages == {"hello"}
Attempts == {"ok", "failure"}

\* sessionId || uuidv4()
ChatIdOf(p, sessionId) ==
  IF sessionId = NoSession THEN [kind |-> "uuid", n |-> p] ELSE sessionId

ChatCall(p, userId, message, sessionId) ==
  [pc |-> "prepare", kind |-> "chat", userId |-> userId, message |-> message,
   chatId |-> ChatIdOf(p, sessionId), thrown |-> FALSE, failedAt |-> "none"]

Threw(proc) == [proc EXCEPT !.pc = "done", !.thrown = TRUE, !.failedAt = proc.pc]

\* collection('chats').doc(chatId).collection('messages').add(...)
NotAdded(cs, chatId, message) == cs
Added(cs, chatId, message) ==
  [cs EXCEPT !.messages = Append(@, [chat |-> chatId] @@ message)]

\* collection('chats').doc(chatId).set({...}, { merge: true })
Merged(cs, chatId, content, at) ==
  LET old == IF chatId \in DOMAIN cs.docs THEN cs.docs[chatId] ELSE [messageCount |-> 0]
      doc == [lastMessage |-> content, lastMessageAt |-> at,
              messageCount |-> old.messageCount + 1] @@ old
  IN [cs EXCEPT !.docs = [c \in DOMAIN @ \cup {chatId} |-> IF c = chatId THEN doc ELSE @[c]]]

\* collection('chats').where('userId', '==', userId)
SessionsOf(cs, userId) ==
  {c \in DOMAIN cs.docs : "userId" \in DOMAIN cs.docs[c] /\ cs.docs[c].userId = userId}

\* The role and the content of the message that processChatMessage is saving.
Saving(proc) == IF proc.pc \in {"addUser", "setUser"} THEN "user" ELSE "assistant"
ContentOf(proc) == IF Saving(proc) = "user" THEN proc.message ELSE "response"

ChatReceive(p, userId, message, sessionId) ==
  /\ procs[p] = NoProc
  /\ procs' = [procs EXCEPT ![p] = ChatCall(p, userId, message, sessionId)]
  /\ UNCHANGED <<Diary, files, chats, millis>>

ChatPrepared(p, attempt) ==
  /\ procs[p].pc = "prepare"
  /\ procs' = [procs EXCEPT ![p] =
                 IF attempt = "ok" THEN [@ EXCEPT !.pc = "addUser"] ELSE Threw(@)]
  /\ UNCHANGED <<Diary, files, chats, millis>>

\* saveChatMessage, the first write: the message.
ChatMessageAdded(p, attempt) ==
  /\ procs[p].pc \in {"addUser", "addAssistant"}
  /\ IF attempt = "ok"
     THEN /\ chats' = Added(chats, procs[p].chatId,
                            [role |-> Saving(procs[p]), content |-> ContentOf(procs[p]),
                             userId |-> procs[p].userId, call |-> p])
          /\ procs' = [procs EXCEPT ![p].pc =
                         IF @ = "addUser" THEN "setUser" ELSE "setAssistant"]
     ELSE /\ procs' = [procs EXCEPT ![p] = Threw(@)]
          /\ UNCHANGED chats
  /\ UNCHANGED <<Diary, files, millis>>

\* saveChatMessage, the second write: the document of the chat.
ChatDocSet(p, attempt) ==
  /\ procs[p].pc \in {"setUser", "setAssistant"}
  /\ IF attempt = "ok"
     THEN /\ chats' = Merged(chats, procs[p].chatId, ContentOf(procs[p]), millis)
          /\ procs' = [procs EXCEPT ![p].pc = IF @ = "setUser" THEN "generate" ELSE "done"]
     ELSE /\ procs' = [procs EXCEPT ![p] = Threw(@)]
          /\ UNCHANGED chats
  /\ UNCHANGED <<Diary, files, millis>>

ChatGenerated(p, attempt) ==
  /\ procs[p].pc = "generate"
  /\ procs' = [procs EXCEPT ![p] =
                 IF attempt = "ok" THEN [@ EXCEPT !.pc = "addAssistant"] ELSE Threw(@)]
  /\ UNCHANGED <<Diary, files, chats, millis>>

GetChatSessions(p, userId) ==
  /\ procs[p] = NoProc
  /\ procs' = [procs EXCEPT ![p] = [pc |-> "done", kind |-> "sessions", userId |-> userId,
                                    sessions |-> SessionsOf(chats, userId)]]
  /\ UNCHANGED <<Diary, files, chats, millis>>

NextChat ==
  \/ Tick
  \/ \E p \in Procs, u \in Users, m \in Messages, s \in {NoSession} \cup ClientSessions :
       ChatReceive(p, u, m, s)
  \/ \E p \in Procs, attempt \in Attempts : ChatPrepared(p, attempt)
  \/ \E p \in Procs, attempt \in Attempts : ChatMessageAdded(p, attempt)
  \/ \E p \in Procs, attempt \in Attempts : ChatDocSet(p, attempt)
  \/ \E p \in Procs, attempt \in Attempts : ChatGenerated(p, attempt)
  \/ \E p \in Procs, u \in Users : GetChatSessions(p, u)

SpecChat == Init /\ [][NextChat]_vars

\* A call of processChatMessage that returned.
ChatReturned(p) ==
  procs[p].pc = "done" /\ procs[p].kind = "chat" /\ ~procs[p].thrown

\* C26: after processChatMessage(userId, message) has returned the session
\* id s, getChatSessions(userId) includes the session s.
C26_SessionsIncludeChat ==
  [][\A q \in Procs, u \in Users :
       GetChatSessions(q, u) =>
         \A p \in Procs :
           ChatReturned(p) /\ procs[p].userId = u =>
             procs[p].chatId \in procs'[q].sessions]_vars

\* The messages a call has stored, by role.
StoredBy(p, role) ==
  {i \in 1..Len(chats.messages) :
     chats.messages[i].call = p /\ chats.messages[i].role = role}

\* C29: processChatMessage stores the user message before it asks the
\* provider for the reply and the assistant message only after the reply:
\* every stored assistant message comes after the user message of its call
\* in the same chat; and when the generation of the reply fails, the user
\* message stays stored, no assistant message is stored for it, and the
\* error reaches the caller.
C29_UserMessageBeforeReply ==
  /\ \A i \in 1..Len(chats.messages) :
       chats.messages[i].role = "assistant" =>
         \E j \in 1..(i - 1) :
           /\ chats.messages[j].role = "user"
           /\ chats.messages[j].call = chats.messages[i].call
           /\ chats.messages[j].chat = chats.messages[i].chat
  /\ \A p \in Procs :
       procs[p].pc # "idle" /\ procs[p].kind = "chat" =>
         /\ procs[p].pc = "generate" => StoredBy(p, "user") # {}
         /\ procs[p].pc \in {"prepare", "addUser", "setUser", "generate"} =>
              StoredBy(p, "assistant") = {}
         /\ procs[p].pc = "done" /\ procs[p].failedAt = "generate" =>
              /\ StoredBy(p, "user") # {}
              /\ StoredBy(p, "assistant") = {}
              /\ procs[p].thrown

\* One call failed at the generation of the reply, another stored its
\* assistant message in the same chat.
C29_Witness ==
  \E p, q \in Procs :
    /\ procs[p].pc = "done" /\ procs[p].kind = "chat" /\ procs[p].failedAt = "generate"
    /\ ChatReturned(q) /\ procs[q].chatId = procs[p].chatId
    /\ StoredBy(q, "assistant") # {}

(***************************************************************************)
(* The batch operation as the retry of failed analyses.  Over entries just  *)
(* created, batch calls arrive again and again and every await of an       *)
(* analysis is resumed (weak fairness of each step).  The                  *)
(* provider and store calls of the analyses that createEntry dispatched    *)
(* can reject; those of the analyses a batch call starts succeed.          *)
(***************************************************************************)
MaxRetryEntries == 3
RetryEntries == 1..MaxRetryEntries

\* Entries just created, none analysed yet, the analysis that createEntry
\* dispatched for each still at its provider calls.
InitRetry ==
  /\ entries = [e \in RetryEntries |-> NewEntry("u1", [content |-> TextA])]
  /\ insights = NoDocs
  /\ tasks = SetToBag({Task(e, TextA, "providers", 0) : e \in RetryEntries})
  /\ reqs = [s \in Slots |-> Idle]
  /\ nextEntryId = MaxRetryEntries + 1
  /\ nextInsightId = 1
  /\ env = Production
  /\ call = NoCall
  /\ InitServices

BatchCalled == \E s \in Slots, u \in Users : ProcessPending(s, u, NoBody)
DetachedRejected == \E t \in Detached(tasks) : AnalysisFails(t)

NextRetry ==
  \/ BatchCalled
  \/ ProvidersReturn
  \/ InsightStored
  \/ EntryMarked
  \/ DetachedRejected

SpecRetry ==
  /\ InitRetry
  /\ [][NextRetry]_vars
  /\ WF_vars(BatchCalled)
  /\ WF_vars(ProvidersReturn)
  /\ WF_vars(InsightStored)
  /\ WF_vars(EntryMarked)

\* C24: when processPendingAnalysis is called again and again and the
\* provider calls succeed from some point on, every entry with processed =
\* false (never analysed, or its analysis failed) is eventually marked
\* processed = true, unless it is deleted or edited first.
C24_UnprocessedEventuallyProcessed ==
  \A e \in RetryEntries :
    (e \in DOMAIN entries /\ ~entries[e].processed)
      ~> (e \notin DOMAIN entries \/ entries[e].processed)

(***************************************************************************)
(* C25: updateEntry resets the processed flag only if the content changed: *)
(* an update answered 200 changes processed only together with the         *)
(* content, and an update that carries no content field leaves the         *)
(* processed flag and the metadata of the entry as they were.              *)
(***************************************************************************)
C25_ProcessedResetOnContentChange ==
  [][\A s \in Slots, u \in Users, id \in 1..MaxDocs, body \in FieldUpdateBodies :
       FieldsUpdate(s, u, id, body) /\ reqs'[s].status = 200 =>
         /\ entries'[id].processed # entries[id].processed =>
              entries'[id].content # entries[id].content
         /\ ~HasField(body, "content") =>
              /\ entries'[id].processed = entries[id].processed
              /\ entries'[id].metadata = entries[id].metadata]_vars

(***************************************************************************)
(* C28: an updateEntry or deleteEntry that fails with 'Entry not found' or *)
(* 'Unauthorized access' performs no write and starts no analysis: it      *)
(* fails at its first await, and neither that step nor the step that       *)
(* received the request changes the entries, the insights or the analyses. *)
(***************************************************************************)
Refused(req) ==
  /\ req.pc = "done" /\ req.kind \in {"update", "delete"}
  /\ Includes(req.message, "not found") \/ Includes(req.message, "Unauthorized")

C28_RefusedWritesNothing ==
  [][\A s \in Slots :
       /\ Refused(reqs'[s]) /\ ~Refused(reqs[s]) =>
            /\ reqs[s].pc = "getDoc"
            /\ UNCHANGED <<entries, insights, tasks>>
       /\ reqs'[s].pc = "getDoc" /\ reqs[s].pc # "getDoc" =>
            UNCHANGED <<entries, insights, tasks>>]_vars

\* An update was refused as unauthorized and a delete as not found, while
\* an entry is stored.
C28_Witness ==
  /\ \E s \in Slots : Answered(s, "update") /\ reqs[s].status = 403 /\ Refused(reqs[s])
  /\ \E s \in Slots : Answered(s, "delete") /\ reqs[s].status = 404 /\ Refused(reqs[s])
  /\ DOMAIN entries # {}

(***************************************************************************)
(* What the diary endpoints return to a user.  The handlers of the read    *)
(* endpoints are taken whole: a read is one step that records the response *)
(* in `call`.  The responses of list, search, stats, analytics,            *)
(* emotional-insights and prompts are computed from getUserEntries(userId) *)
(* and from getEntryInsights of the entries it returned; get and insights  *)
(* start with getEntryById.                                                *)
(***************************************************************************)
MaxViewEntries == 2

ReadRequests ==
  {[endpoint |-> e] : e \in {"list", "stats", "emotional-insights"}}
    \cup {[endpoint |-> e, id |-> i] : e \in {"get", "insights"},
                                       i \in 1..MaxViewEntries}

\* entry.insights = await diaryModel.getEntryInsights(entry.id)
WithInsights(entry) == Spread(entry, [insights |-> GetEntryInsights(entry.id)])

RECURSIVE TotalWords(_)
TotalWords(es) ==
  IF es = <<>> THEN 0 ELSE Head(es).metadata.wordCount + TotalWords(Tail(es))

\* The response of a read endpoint to the user.
ResponseTo(userId, request) ==
  LET es == GetUserEntries(userId)
  IN CASE request.endpoint = "list" ->
            [status |-> 200, data |-> [i \in 1..Len(es) |-> WithInsights(es[i])]]
       [] request.endpoint = "stats" ->
            [status |-> 200,
             data |-> [totalEntries |-> Len(es), totalWords |-> TotalWords(es)]]
       [] request.endpoint = "emotional-insights" ->
            [status |-> 200, data |-> ProcessEmotionalInsights(InsightsOfEntries(es))]
       [] OTHER ->
            LET r == GetEntryById(request.id, userId)
                message == Wrapped("get", r.message)
            IN IF ~r.ok THEN [status |-> ErrorStatus(message), message |-> message]
               ELSE IF request.endpoint = "get"
               THEN [status |-> 200, data |-> WithInsights(Read(request.id, r.value))]
               ELSE [status |-> 500,
                     message |-> <<"diaryService.getEntryInsights is not a function">>]

\* The entries of the user and the insights of these entries.
OwnData(userId) ==
  LET own == {e \in DOMAIN entries : entries[e].userId = userId}
  IN << [e \in own |-> entries[e]],
        [i \in {j \in DOMAIN insights : insights[j].entryId \in own} |-> insights[i]] >>

\* createEntry
ViewsCreate(u) ==
  /\ nextEntryId <= MaxViewEntries
  /\ InsightsCreate(u)

\* deleteEntry of the owner, with the insights of the entry.
ViewsDelete(u, e) ==
  /\ e \in DOMAIN entries /\ entries[e].userId = u
  /\ entries' = Without(entries, {e})
  /\ insights' = Without(insights, InsightsOf(e))
  /\ UNCHANGED <<tasks, reqs, nextEntryId, nextInsightId, env, call, Services>>

\* A read; `own` is the data of the caller at the time of the read.
ViewsRead(u, request) ==
  /\ call' = [fn |-> request.endpoint, arg |-> request, caller |-> u,
              ret |-> ResponseTo(u, request), own |-> OwnData(u)]
  /\ UNCHANGED Store

\* A behaviour has one read; the store changes before and after it.
NextViews ==
  \/ \E u \in Users : ViewsCreate(u)
  \/ \E e \in 1..MaxViewEntries, sentiment \in Sentiments :
       InsightsStore(e, sentiment)
  \/ \E u \in Users, e \in 1..MaxViewEntries : ViewsDelete(u, e)
  \/ /\ call = NoCall
     /\ \E u \in Users, request \in ReadRequests : ViewsRead(u, request)

SpecViews == InitInsights /\ [][NextViews]_vars

\* The store differs from the one of the read only in the entries and
\* insights of other users.
OthersDiffer ==
  /\ call # NoCall
  /\ OwnData(call.caller) = call.own

Masked(response) ==
  IF response.status \in {403, 404} THEN [status |-> "refused"] ELSE response

====
